---- MODULE Spec2Model ----
(***************************************************************************)
(* Conversation memory of the Dubai Estate AI bot (src/conversation.py):   *)
(* the key-fact extractor and the ConversationStore, a lock-protected      *)
(* per-user session map with a compacting rolling summary.                 *)
(*                                                                         *)
(* Python strings are TLA+ strings; s[:n] is Take(s, n), len is Len,       *)
(* + is \o.  time.time() is the integer variable now, in seconds.          *)
(***************************************************************************)
EXTENDS Integers, Sequences, FiniteSets, TLC

(***************************************************************************)
(* String primitives (Python str methods and the re character classes).    *)
(***************************************************************************)
Min(a, b) == IF a < b THEN a ELSE b

\* s[i] as a one-character string, "" outside the string
CharAt(s, i) == IF i >= 1 /\ i <= Len(s) THEN SubSeq(s, i, i) ELSE ""

\* s[:n]
Take(s, n) == SubSeq(s, 1, Min(n, Len(s)))

\* s[i-1:] (the suffix that starts at position i, 1-based)
From(s, i) == SubSeq(s, i, Len(s))

\* s[i-1:].startswith(lit)
MatchAt(s, i, lit) ==
    /\ i >= 1
    /\ i + Len(lit) - 1 <= Len(s)
    /\ SubSeq(s, i, i + Len(lit) - 1) = lit

\* lit in s
Contains(s, lit) == \E i \in 1..(Len(s) - Len(lit) + 1) : MatchAt(s, i, lit)

UpperLetters == "ABCDEFGHIJKLMNOPQRSTUVWXYZ"
LowerLetters == "abcdefghijklmnopqrstuvwxyz"
Digits == "0123456789"

CharsOf(s) == {SubSeq(s, i, i) : i \in 1..Len(s)}

ToLower == [c \in CharsOf(UpperLetters) |->
              LET i == CHOOSE k \in 1..26 : SubSeq(UpperLetters, k, k) = c
              IN  SubSeq(LowerLetters, i, i)]

ToUpper == [c \in CharsOf(LowerLetters) |->
              LET i == CHOOSE k \in 1..26 : SubSeq(LowerLetters, k, k) = c
              IN  SubSeq(UpperLetters, i, i)]

LowerChar(c) == IF c \in CharsOf(UpperLetters) THEN ToLower[c] ELSE c
UpperChar(c) == IF c \in CharsOf(LowerLetters) THEN ToUpper[c] ELSE c

\* s.lower()[i-1:].startswith(lit), for a lower-case lit: how re.IGNORECASE
\* matches a literal at position i
MatchAtCI(s, i, lit) ==
    /\ i >= 1
    /\ i + Len(lit) - 1 <= Len(s)
    /\ \A k \in 1..Len(lit) : LowerChar(CharAt(s, i + k - 1)) = CharAt(lit, k)

\* lit in s.lower(), for a lower-case lit
ContainsCI(s, lit) == \E i \in 1..(Len(s) - Len(lit) + 1) : MatchAtCI(s, i, lit)

DigitChars == CharsOf(Digits)
LetterChars == CharsOf(UpperLetters) \cup CharsOf(LowerLetters)

IsDigit(c) == c \in DigitChars
IsLetter(c) == c \in LetterChars
\* \w of the re module, on the alphabet of the model
IsWordChar(c) == IsLetter(c) \/ IsDigit(c) \/ c = "_"
\* \s of the re module, on the alphabet of the model
SpaceChars == {" ", "\n", "\t", "\r"}
IsSpace(c) == c \in SpaceChars

\* str.lower(), on the characters lo..hi of s
RECURSIVE LowerRange(_, _, _)
LowerRange(s, lo, hi) ==
    IF lo > hi THEN ""
    ELSE IF lo = hi THEN LowerChar(CharAt(s, lo))
    ELSE LET mid == (lo + hi) \div 2
         IN  LowerRange(s, lo, mid) \o LowerRange(s, mid + 1, hi)

lower(s) == LowerRange(s, 1, Len(s))

\* str.upper(), on the characters lo..hi of s
RECURSIVE UpperRange(_, _, _)
UpperRange(s, lo, hi) ==
    IF lo > hi THEN ""
    ELSE IF lo = hi THEN UpperChar(CharAt(s, lo))
    ELSE LET mid == (lo + hi) \div 2
         IN  UpperRange(s, lo, mid) \o UpperRange(s, mid + 1, hi)

upper(s) == UpperRange(s, 1, Len(s))

\* str.title(): a letter is upper-cased after a non-letter, lower-cased after a letter
RECURSIVE TitleRange(_, _, _)
TitleRange(s, lo, hi) ==
    IF lo > hi THEN ""
    ELSE IF lo = hi
         THEN IF IsLetter(CharAt(s, lo - 1)) THEN LowerChar(CharAt(s, lo))
              ELSE UpperChar(CharAt(s, lo))
    ELSE LET mid == (lo + hi) \div 2
         IN  TitleRange(s, lo, mid) \o TitleRange(s, mid + 1, hi)

title(s) == TitleRange(s, 1, Len(s))

\* str.replace(a, b) for a one-character a, on the characters lo..hi of s
RECURSIVE ReplaceRange(_, _, _, _, _)
ReplaceRange(s, a, b, lo, hi) ==
    IF lo > hi THEN ""
    ELSE IF lo = hi THEN (IF CharAt(s, lo) = a THEN b ELSE CharAt(s, lo))
    ELSE LET mid == (lo + hi) \div 2
         IN  ReplaceRange(s, a, b, lo, mid) \o ReplaceRange(s, a, b, mid + 1, hi)

replace(s, a, b) == ReplaceRange(s, a, b, 1, Len(s))

\* \b of the re module at the gap before position i
WordBoundary(s, i) == IsWordChar(CharAt(s, i - 1)) # IsWordChar(CharAt(s, i))

\* least member of a non-empty set of integers
Least(S) == CHOOSE x \in S : \A y \in S : x <= y

\* the position after the longest run of characters of class C(_) from i
\* (what a greedy C* consumes), for 1 <= i <= Len(s) + 1
RunEnd(s, i, class) ==
    Least({j \in i..(Len(s) + 1) : j = Len(s) + 1 \/ CharAt(s, j) \notin class})

\* sep.join(parts)
RECURSIVE Join(_, _)
Join(parts, sep) ==
    IF parts = <<>> THEN ""
    ELSE IF Len(parts) = 1 THEN parts[1]
    ELSE parts[1] \o sep \o Join(Tail(parts), sep)

(***************************************************************************)
(* Gazetteer.  DUBAI_LOCATIONS is a Python set of str: its iteration order *)
(* is fixed within one process and depends on the process's string hash    *)
(* seed.  The model lists the set in source order and takes the iteration  *)
(* order of a process with hash seed k to be that list rotated by k.       *)
(***************************************************************************)
DUBAI_LOCATIONS ==
    << "marina", "jbr", "downtown", "business bay", "jlt", "arjan",
       "dubailand", "silicon oasis", "sports city", "motor city",
       "discovery gardens", "al furjan", "jumeirah", "palm",
       "creek harbour", "sobha hartland", "meydan", "dubai hills",
       "arabian ranches", "damac hills", "town square", "remraam",
       "international city", "al quoz", "barsha", "tecom",
       "greens", "views", "springs", "meadows", "lakes",
       "difc", "world trade centre", "zabeel", "ras al khor",
       "production city", "studio city", "mudon", "villanova",
       "tilal al ghaf", "emaar beachfront", "bluewaters",
       "city walk", "la mer", "dubai south", "expo city" >>

\* the order in which "for loc in DUBAI_LOCATIONS" visits the set
IterationOrder(seed) ==
    LET n == Len(DUBAI_LOCATIONS)
    IN  [i \in 1..n |-> DUBAI_LOCATIONS[((i - 1 + seed) % n) + 1]]

(***************************************************************************)
(* _extract_key_facts: eight rules, each appending at most one fragment.   *)
(* Each rule below is the list of fragments (<<>> or one string) it adds.  *)
(* re.search returns the leftmost match: FirstStart of the positions at    *)
(* which the pattern matches.  The quantifiers of these patterns are       *)
(* greedy over character classes that exclude what must follow them, so a  *)
(* match at a position, when there is one, is the greedy one.              *)
(***************************************************************************)
\* the least position of a set of positions, 0 when there is none
FirstStart(S) == IF S = {} THEN 0 ELSE Least(S)

\* for loc in DUBAI_LOCATIONS: if loc.lower() in response.lower(): ... break
LocationAt(ord, k) == IF k = 0 THEN <<>> ELSE <<title(ord[k])>>

LocationFact(response, seed) ==
    LocationAt(IterationOrder(seed),
               FirstStart({i \in 1..Len(DUBAI_LOCATIONS) :
                             ContainsCI(response, lower(IterationOrder(seed)[i]))}))

DigitOrCommaChars == DigitChars \cup {","}
ColonOrSpaceChars == {":"} \cup SpaceChars
IsUnit(c) == c \in {"M", "m", "K", "k"}

\* (?:\s*[MmKk])? from c, d being the position after the white space at c
PriceUnitEnd(s, c, d) == IF IsUnit(CharAt(s, d)) THEN d + 1 ELSE c

\* (?:\.\d+)? from b
PriceFracEnd(s, b) ==
    IF CharAt(s, b) = "." /\ IsDigit(CharAt(s, b + 1))
    THEN RunEnd(s, b + 1, DigitChars) ELSE b

\* [\d,]+ from a to b, then the optional groups
PriceTailEnd(s, a, b, c) == IF b > a THEN PriceUnitEnd(s, c, RunEnd(s, c, SpaceChars)) ELSE 0

PriceDigitsEnd(s, a, b) == PriceTailEnd(s, a, b, PriceFracEnd(s, b))

PriceSpaceEnd(s, a) == PriceDigitsEnd(s, a, RunEnd(s, a, DigitOrCommaChars))

\* the end (exclusive) of the match of AED\s*[\d,]+(?:\.\d+)?(?:\s*[MmKk])? that
\* starts at i, or 0 when there is none
PriceEnd(s, i) ==
    IF MatchAt(s, i, "AED") THEN PriceSpaceEnd(s, RunEnd(s, i + 3, SpaceChars)) ELSE 0

\* group(0).strip(): a match starts with "A" and ends with a digit, a comma or
\* the unit letter, so strip() removes nothing
PriceGroup(s, i) == IF i = 0 THEN <<>> ELSE <<SubSeq(s, i, PriceEnd(s, i) - 1)>>

\* re.search(r'AED\s*[\d,]+(?:\.\d+)?(?:\s*[MmKk])?', response)
PriceFact(response) ==
    PriceGroup(response,
               FirstStart({i \in 1..Len(response) : PriceEnd(response, i) > 0}))

\* (\d+)/100 from a to b
ScoreDigits(s, a, b) ==
    IF b > a /\ MatchAt(s, b, "/100") THEN SubSeq(s, a, b - 1) ELSE ""

ScoreSep(s, a) == ScoreDigits(s, a, RunEnd(s, a, DigitChars))

\* group(1) of Score[:\s]*(\d+)/100 matched at i (IGNORECASE), or ""
ScoreAt(s, i) ==
    IF MatchAtCI(s, i, "score") THEN ScoreSep(s, RunEnd(s, i + 5, ColonOrSpaceChars)) ELSE ""

ScoreGroup(s, i) == IF i = 0 THEN <<>> ELSE <<"Score: " \o ScoreAt(s, i) \o "/100">>

\* re.search(r'Score[:\s]*(\d+)/100', response, re.IGNORECASE)
ScoreFact(response) ==
    ScoreGroup(response,
               FirstStart({i \in 1..Len(response) : ScoreAt(response, i) # ""}))

\* GO\b at k
GoAt(s, k) == MatchAtCI(s, k, "go") /\ WordBoundary(s, k + 2)

\* re.search(r'\bNO[- ]?GO\b', response, re.IGNORECASE)
HasNoGo(response) ==
    \E i \in 1..Len(response) :
      /\ WordBoundary(response, i)
      /\ MatchAtCI(response, i, "no")
      /\ GoAt(response, IF CharAt(response, i + 2) \in {"-", " "} THEN i + 3 ELSE i + 2)

\* re.search(r'\bGO\b', response)
HasGo(response) ==
    \E i \in 1..Len(response) :
      /\ WordBoundary(response, i)
      /\ MatchAt(response, i, "GO")
      /\ WordBoundary(response, i + 2)

\* a recommendation rule that looks for the bare GO first
RecommendationFactGoFirst(response) ==
    IF HasGo(response) THEN <<"GO">>
    ELSE IF HasNoGo(response) THEN <<"NO-GO">>
    ELSE <<>>

\* if NO-GO: "NO-GO" elif GO: "GO"
RecommendationFact(response) ==
    IF HasNoGo(response) THEN <<"NO-GO">>
    ELSE IF HasGo(response) THEN <<"GO">>
    ELSE <<>>

BuyGrades == {"good", "cautious", "strong", "weak", "excellent"}

\* \s+BUY from a, b being the position after the white space at a
BuyWord(s, a, b) == IF b > a /\ MatchAtCI(s, b, "buy") THEN b + 3 ELSE 0

\* the end (exclusive) of the match of (GOOD|CAUTIOUS|STRONG|WEAK|EXCELLENT)\s+BUY
\* at i (IGNORECASE), or 0; the grades start with different letters, so at
\* most one of them matches at i
BuyEnd(s, i) ==
    FirstStart({e \in {BuyWord(s, i + Len(g), RunEnd(s, i + Len(g), SpaceChars)) :
                         g \in {w \in BuyGrades : MatchAtCI(s, i, w)}} : e > 0})

BuyGroup(s, i) == IF i = 0 THEN <<>> ELSE <<upper(SubSeq(s, i, BuyEnd(s, i) - 1))>>

\* re.search(r'(GOOD|CAUTIOUS|STRONG|WEAK|EXCELLENT)\s+BUY', ..., re.IGNORECASE)
BuyFact(response) ==
    BuyGroup(response, FirstStart({i \in 1..Len(response) : BuyEnd(response, i) > 0}))

\* re.search(r'(empower|chiller)', response, re.IGNORECASE)
ChillerFact(response) ==
    IF ContainsCI(response, "empower") \/ ContainsCI(response, "chiller")
    THEN <<"Empower chiller">> ELSE <<>>

\* \s*yield from f: <<group(1), group(2)>>
YieldWord(s, i, c, e, f, h) ==
    IF MatchAtCI(s, h, "yield") THEN <<SubSeq(s, i, c - 1), SubSeq(s, e, f - 1)>> ELSE <<>>

\* (gross|net)? from e
YieldKind(s, i, c, e, f) == YieldWord(s, i, c, e, f, RunEnd(s, f, SpaceChars))

YieldKindEnd(s, e) ==
    IF MatchAtCI(s, e, "gross") THEN e + 5
    ELSE IF MatchAtCI(s, e, "net") THEN e + 3 ELSE e

\* %\s* from d
YieldPercent(s, i, c, d, e) ==
    IF CharAt(s, d) = "%" THEN YieldKind(s, i, c, e, YieldKindEnd(s, e)) ELSE <<>>

\* \s* from c, the end of group(1)
YieldNumber(s, i, c, d) == YieldPercent(s, i, c, d, RunEnd(s, d + 1, SpaceChars))

\* \.?\d* from a
YieldFrac(s, i, c) == YieldNumber(s, i, c, RunEnd(s, c, SpaceChars))

YieldInt(s, i, a) == YieldFrac(s, i, RunEnd(s, IF CharAt(s, a) = "." THEN a + 1 ELSE a, DigitChars))

\* the match of (\d+\.?\d*)\s*%\s*(gross|net)?\s*yield at i (IGNORECASE):
\* <<group(1), group(2)>>, or <<>> when there is none
YieldAt(s, i) ==
    IF IsDigit(CharAt(s, i)) THEN YieldInt(s, i, RunEnd(s, i, DigitChars)) ELSE <<>>

\* yield_str, then f"{yield_str} yield"
YieldGroup(m) ==
    IF m = <<>> THEN <<>>
    ELSE <<m[1] \o "%" \o (IF m[2] # "" THEN " " \o m[2] ELSE "") \o " yield">>

YieldFirst(s, i) == IF i = 0 THEN <<>> ELSE YieldGroup(YieldAt(s, i))

\* re.search(r'(\d+\.?\d*)\s*%\s*(gross|net)?\s*yield', response, re.IGNORECASE)
YieldFact(response) ==
    YieldFirst(response,
               FirstStart({i \in 1..Len(response) : YieldAt(response, i) # <<>>}))

\* re.search(r'oversuppl', response, re.IGNORECASE)
OversupplyFact(response) ==
    IF ContainsCI(response, "oversuppl") THEN <<"oversupply risk">> ELSE <<>>

KEY_FACTS_CAP == 250
FALLBACK_CAP == 150

\* a result without the final [:250]
FactsResultUncut(facts, response) ==
    IF facts # <<>> THEN Join(facts, ", ")
    ELSE replace(Take(response, FALLBACK_CAP), "\n", " ")

\* ", ".join(facts) if facts else response[:150].replace("\n", " "), then [:250]
FactsResult(facts, response) ==
    Take(IF facts # <<>> THEN Join(facts, ", ")
         ELSE replace(Take(response, FALLBACK_CAP), "\n", " "),
         KEY_FACTS_CAP)

\* _extract_key_facts(response) in a process whose hash seed is seed
extract_key_facts(response, seed) ==
    FactsResult(LocationFact(response, seed) \o PriceFact(response)
                  \o ScoreFact(response) \o RecommendationFact(response)
                  \o BuyFact(response) \o ChillerFact(response)
                  \o YieldFact(response) \o OversupplyFact(response),
                response)

(***************************************************************************)
(* Follow-up detection: is_followup and the recognizers it calls.          *)
(***************************************************************************)
\* the greatest member of a non-empty set of integers
Greatest(S) == CHOOSE x \in S : \A y \in S : x >= y

\* the characters first..last of s, "" when s has no character to keep
StripRange(s, first) ==
    IF first > Len(s) THEN ""
    ELSE SubSeq(s, first, Greatest({j \in first..Len(s) : CharAt(s, j) \notin SpaceChars}))

\* a strip that strips nothing
strip_nothing(s) == s

\* str.strip()
strip(s) == StripRange(s, RunEnd(s, 1, SpaceChars))

\* \bword\b at position i
WordAt(s, i, word) ==
    /\ MatchAt(s, i, word)
    /\ WordBoundary(s, i)
    /\ WordBoundary(s, i + Len(word))

\* re.search(r'\b(w1|w2|...)\b', s)
HasWord(s, words) == \E i \in 1..Len(s), word \in words : WordAt(s, i, word)

\* for loc in DUBAI_LOCATIONS: if loc in msg_lower: return True
ContainsAny(msg_lower, locations) ==
    \E k \in 1..Len(locations) : Contains(msg_lower, locations[k])

contains_location(msg) == ContainsAny(lower(msg), DUBAI_LOCATIONS)

PROPERTY_TYPES ==
    {"studio", "1br", "2br", "3br", "4br", "5br", "1bed", "2bed", "3bed", "4bed",
     "5bed", "apartment", "villa", "townhouse", "penthouse", "duplex"}

has_property_type(msg) == HasWord(lower(msg), PROPERTY_TYPES)

PRICE_WORDS == {"aed", "under", "below", "above", "over", "budget"}

\* \d{3,}k: a k after three digits
ThousandsAt(s, i) ==
    /\ CharAt(s, i) = "k"
    /\ i > 3
    /\ \A j \in (i - 3)..(i - 1) : IsDigit(CharAt(s, j))

\* \d[\d,]*\.\d+m around the "." at position i: digits and commas that
\* hold a digit before it, digits and then m after it
MillionsTail(s, i, e) == e > i + 1 /\ CharAt(s, e) = "m"

MillionsAt(s, i) ==
    /\ CharAt(s, i) = "."
    /\ \E d \in 1..(i - 1) :
         /\ IsDigit(CharAt(s, d))
         /\ \A j \in d..(i - 1) : CharAt(s, j) \in DigitOrCommaChars
    /\ MillionsTail(s, i, RunEnd(s, i + 1, DigitChars))

\* \d{6,}: six digits in a row from i
SixDigitsAt(s, i) == \A j \in i..(i + 5) : IsDigit(CharAt(s, j))

HasPricePattern(s) ==
    \/ HasWord(s, PRICE_WORDS)
    \/ \E i \in 1..Len(s) : ThousandsAt(s, i) \/ MillionsAt(s, i) \/ SixDigitsAt(s, i)

has_price(msg) == HasPricePattern(lower(msg))

SEARCH_VERBS == {"analyze", "search", "find", "look up"}

\* re.match(r'^(analyze|search|find|look up)\b', msg_lower)
LeadingVerb(msg_lower) ==
    \E verb \in SEARCH_VERBS :
      MatchAt(msg_lower, 1, verb) /\ WordBoundary(msg_lower, 1 + Len(verb))

LEADING_MARKERS ==
    {"what about", "how about", "and ", "also ", "instead ", "compare", "which one",
     "what if"}
PRONOUNS == {"it", "that", "this", "these", "those", "the same", "the other"}
COMPARATIVES ==
    {"better", "worse", "cheaper", "more expensive", "similar", "alternatively", "vs",
     "versus"}

\* FOLLOWUP_PATTERNS[0]: ^(what about|...), re.search without re.MULTILINE
LeadingMarker(msg_lower) == \E m \in LEADING_MARKERS : MatchAt(msg_lower, 1, m)

\* for pattern in FOLLOWUP_PATTERNS: if re.search(pattern, msg_lower)
FollowupSignal(msg_lower) ==
    \/ LeadingMarker(msg_lower)
    \/ HasWord(msg_lower, PRONOUNS)
    \/ HasWord(msg_lower, COMPARATIVES)

SHORT_MESSAGE == 40

\* a chain that looks at the follow-up signals and the length first
RulesSignalFirst(msg_lower, loc, type, price) ==
    IF FollowupSignal(msg_lower) THEN TRUE
    ELSE IF Len(msg_lower) < SHORT_MESSAGE /\ ~loc THEN TRUE
    ELSE FALSE

\* is_followup, lines 86-102
Rules(msg_lower, loc, type, price) ==
    IF loc /\ (type \/ price) THEN FALSE
    ELSE IF LeadingVerb(msg_lower) /\ loc THEN FALSE
    ELSE IF FollowupSignal(msg_lower) THEN TRUE
    ELSE IF Len(msg_lower) < SHORT_MESSAGE /\ ~loc THEN TRUE
    ELSE FALSE

\* is_followup, lines 80-85
Classify(msg_lower) ==
    Rules(msg_lower, contains_location(msg_lower), has_property_type(msg_lower),
          has_price(msg_lower))

\* a classifier that does not ask for a session
is_followup_sessionless(message, has_sess) == Classify(strip(lower(message)))

is_followup(message, has_sess) ==
    IF ~has_sess THEN FALSE ELSE Classify(strip(lower(message)))

(***************************************************************************)
(* ConversationSession and the summary algebra of ConversationStore.update *)
(***************************************************************************)
SESSION_TIMEOUT_SECONDS == 30 * 60
SUMMARY_CAP == 500
QUERY_CAP == 80
SNIPPET_CAP == 300
SEP == " | "

\* the arrow of the f-strings of lines 226 and 228, the one character U+2192;
\* the model writes it as one ASCII character that occurs in no input
ARROW == ">"

\* ConversationSession(): the dataclass defaults, last_activity = time.time()
ConversationSession(t) ==
    [summary |-> "", last_query |-> "", last_response_snippet |-> "",
     turn_count |-> 0, last_activity |-> t]

\* an expiry test that is off by one (>= for >)
ExpiredAtTimeout(session, t) == t - session.last_activity >= SESSION_TIMEOUT_SECONDS

\* time.time() - session.last_activity > SESSION_TIMEOUT_SECONDS
Expired(session, t) == t - session.last_activity > SESSION_TIMEOUT_SECONDS

\* s.split(sep): the pieces between the non-overlapping occurrences of sep,
\* found left to right
RECURSIVE Split(_, _)
Split(s, sep) ==
    LET hits == {i \in 1..(Len(s) - Len(sep) + 1) : MatchAt(s, i, sep)}
    IN  IF hits = {} THEN <<s>>
        ELSE LET i == Least(hits)
             IN  <<SubSeq(s, 1, i - 1)>> \o Split(From(s, i + Len(sep)), sep)

\* a compaction that pops once ("if" for "while")
PopOldestOnce(parts) ==
    IF Len(Join(parts, SEP)) > SUMMARY_CAP /\ Len(parts) > 1 THEN Tail(parts) ELSE parts

\* while len(" | ".join(parts)) > 500 and len(parts) > 1: parts.pop(0)
RECURSIVE PopOldest(_)
PopOldest(parts) ==
    IF Len(Join(parts, SEP)) > SUMMARY_CAP /\ Len(parts) > 1
    THEN PopOldest(Tail(parts))
    ELSE parts

\* a rendering that starts every turn with "Prior:"
RenderSummaryPrior(summary, query, facts) ==
    "Prior: " \o Take(query, QUERY_CAP) \o " " \o ARROW \o " " \o facts

\* the "Build / extend summary" branch of update
RenderSummary(summary, query, facts) ==
    IF summary # ""
    THEN summary \o " | Then: " \o Take(query, QUERY_CAP) \o " " \o ARROW \o " " \o facts
    ELSE "Prior: " \o Take(query, QUERY_CAP) \o " " \o ARROW \o " " \o facts

\* a compaction that pops the newest part (parts.pop() for parts.pop(0))
RECURSIVE PopNewest(_)
PopNewest(parts) ==
    IF Len(Join(parts, SEP)) > SUMMARY_CAP /\ Len(parts) > 1
    THEN PopNewest(SubSeq(parts, 1, Len(parts) - 1))
    ELSE parts

CompactSummaryNewest(new_summary) ==
    IF Len(new_summary) > SUMMARY_CAP
    THEN Join(PopNewest(Split(new_summary, SEP)), SEP)
    ELSE new_summary

\* the "Keep summary compact" branch of update
CompactSummary(new_summary) ==
    IF Len(new_summary) > SUMMARY_CAP
    THEN Join(PopOldest(Split(new_summary, SEP)), SEP)
    ELSE new_summary

(***************************************************************************)
(* Inputs of the model.                                                    *)
(***************************************************************************)
MaxHashSeed == 1
MaxTurns == 3
MaxRacingTurns == 2
MaxTicks == 2
MaxRacingTicks == 1
MaxSweepTurns == 3
MaxSweepTicks == 2
MaxShutdowns == 1
\* the number of shutdown() calls where the timers are counted
MaxTimerShutdowns == 2
MaxAdapterTurns == 2
MaxFairTurns == 1
MaxAdapterTicks == 1

Threads == {"t1", "t2"}
NoThread == "none"
Users == {"u1", "u2"}
HashSeeds == 0..MaxHashSeed

\* n copies of the one-character string c
RECURSIVE Repeat(_, _)
Repeat(c, n) ==
    IF n <= 0 THEN ""
    ELSE IF n = 1 THEN c
    ELSE Repeat(c, n \div 2) \o Repeat(c, n - (n \div 2))

\* a short follow-up, and a query longer than QUERY_CAP that holds the separator
ShortQuery == "What about JBR?"
LongQuery ==
    "Find 2BR apartments in Marina under 2M | then compare them with the JBR towers that have a sea view"

Queries == {ShortQuery, LongQuery}

\* an empty response, a response naming two gazetteer locations, and a response
\* whose price fragment alone exceeds KEY_FACTS_CAP and SNIPPET_CAP
EmptyResponse == ""
FactsResponse == "Marina Gate beats JBR Walk.\nAED 2,500,000. Score: 62/100. GOOD BUY."
LongResponse == "AED " \o Repeat("7", 320)

Responses == {EmptyResponse, FactsResponse, LongResponse}

\* _extract_key_facts on the inputs of the model, computed once per hash seed
\* messages for is_followup, in parts: how the message starts, a place, a
\* property type, a price, a follow-up word and a tail that makes it long
Leads == {"", " \n ", "What about ", "  And ", "Find ", "Look up ", "Finder "}
Places == {"", "Marina Gate", "the reviews"}
Types == {"", " 2BR", " villas"}
Prices == {"", " 2M", " 1,250.5M", " 500K"}
Signals == {"", " cheaper", " with it", " items"}
Pads == {"", " for my family and friends please now ok"}
Messages ==
    [lead : Leads, place : Places, type : Types, price : Prices, signal : Signals,
     pad : Pads]

\* responses for _extract_key_facts, built from parts: what each rule looks for
\* (twice or in a second spelling, where the rule takes the first), and text
\* that no rule matches; the parts stand in the response in the reverse of
\* the order of the rules
Oversupplies == {"", "Oversupplied.\n"}
Yields == {"", "6.5 % Net yield, 7% yield. "}
Chillers == {"", "EMPOWER. "}
Buys == {"", "Good  buy, STRONG BUY. "}
Recommendations == {"", "no go, GO later. ", "GO. ", "go. "}
Scores == {"", "score 62/100, Score: 70/100. "}
ResponsePrices == {"", "AED 1.5 M, AED 2,500,000. "}
ResponsePlaces == {"", "Marina Gate, JBR Walk. ", "downtown. "}
Rests == {"", "\n", "Nothing\nfound"}

\* a price of more than KEY_FACTS_CAP characters, and text of more than
\* FALLBACK_CAP characters that no rule matches
LongPrice == "AED " \o Repeat("7", 250) \o ". "
LongRest == "ok\n" \o Repeat("z", 150)

\* no call of _extract_key_facts yet
NoResponseParts ==
    [oversupply |-> "", yield |-> "", chiller |-> "", buy |-> "", recommendation |-> "",
     score |-> "", price |-> "", location |-> "", rest |-> ""]

\* every combination of the parts the rules look for, and the other text and
\* the long parts alone or with a place or an oversupply warning
ResponseParts ==
    [oversupply : Oversupplies, yield : Yields, chiller : Chillers, buy : Buys,
     recommendation : Recommendations, score : Scores, price : ResponsePrices,
     location : ResponsePlaces, rest : {""}]
    \cup {[NoResponseParts EXCEPT !.price = p, !.rest = r, !.location = l, !.oversupply = o] :
            p \in {"", LongPrice}, r \in Rests \cup {LongRest}, l \in ResponsePlaces,
            o \in Oversupplies}

KeyFacts == [seed \in HashSeeds |-> [r \in Responses |-> extract_key_facts(r, seed)]]

(***************************************************************************)
(* State.                                                                  *)
(***************************************************************************)
VARIABLES
    hashSeed,   \* the string hash seed of the process (fixes set iteration order)
    now,        \* time.time(), in seconds
    sessions,   \* ConversationStore._sessions: user_id -> ConversationSession
    lock,       \* ConversationStore._lock: the thread that holds it, or NoThread
    pc,         \* per thread: "idle", "lock" (waits for the lock), "body" (holds
                \* it), "write" (update, before line 238) or "return"
    frame,      \* per thread: the arguments, locals and return value of its call
    cleanup_timer,  \* the threading.Timer self._cleanup_timer refers to: "pending"
                    \* (started, waiting), "cancelled" or "fired" (it has called
                    \* its function)
    sweep,      \* the timer thread that runs _cleanup: its position and locals
    shutdowns,  \* the number of shutdown() calls that have returned
    armed,      \* the number of Timer objects started, not cancelled, that
                \* have not yet called _cleanup
    classifier, \* a call of is_followup: its arguments and its result
    extractor,  \* a call of _extract_key_facts: its argument and its result
    handler     \* a chat handler (process_query, handle_message): its position
                \* and locals

vars ==
    <<hashSeed, now, sessions, lock, pc, frame, cleanup_timer, sweep, shutdowns,
      armed, classifier, extractor, handler>>

\* the calls of the two pure functions of the module
pureVars == <<classifier, extractor>>

\* the part of the state the public methods of lines 192-256 never touch
timerVars == <<cleanup_timer, sweep, shutdowns, armed>>

\* the part of the state the timer thread and shutdown never touch
callerVars == <<hashSeed, pc, frame, pureVars, handler>>

\* the timer thread between two runs of _cleanup
IdleSweep == [pc |-> "idle", now |-> 0, removed |-> 0]

IdleFrame ==
    [op |-> "idle", user_id |-> "", query |-> "", response |-> "",
     key_facts |-> "", new_summary |-> "", now |-> 0, branch |-> "", ret |-> <<>>]

\* return values: None, a bool, a str, an int
RetNone == <<"None">>
RetBool(b) == <<"bool", b>>
RetStr(x) == <<"str", x>>
RetInt(n) == <<"int", n>>

NoSessions == [u \in {} |-> ConversationSession(0)]

\* a removal that removes nothing
WithoutNothing(map, u) == map

\* del self._sessions[user_id] / self._sessions.pop(user_id, None)
Without(map, u) == [v \in DOMAIN map \ {u} |-> map[v]]

\* a store that keeps one entry
WithOnly(map, u, session) == [v \in {u} |-> session]

\* self._sessions[user_id] = session
With(map, u, session) == [v \in DOMAIN map \cup {u} |-> IF v = u THEN session ELSE map[v]]

TotalTurns ==
    LET RECURSIVE Sum(_)
        Sum(S) == IF S = {} THEN 0
                  ELSE LET u == CHOOSE v \in S : TRUE
                       IN  sessions[u].turn_count + Sum(S \ {u})
    IN  Sum(DOMAIN sessions)

\* no call of is_followup yet
NoParts == [lead |-> "", place |-> "", type |-> "", price |-> "", signal |-> "", pad |-> ""]
IdleClassifier == [parts |-> NoParts, has_session |-> FALSE, ret |-> <<>>]

\* ConversationStore() and its callers
InitStore ==
    /\ hashSeed \in HashSeeds
    /\ now = 0
    /\ sessions = NoSessions
    /\ lock = NoThread
    /\ pc = [t \in Threads |-> "idle"]
    /\ frame = [t \in Threads |-> IdleFrame]
    /\ cleanup_timer = "pending"
    /\ sweep = IdleSweep
    /\ shutdowns = 0
    /\ armed = 1

\* no call of _extract_key_facts yet
IdleExtractor == [parts |-> NoResponseParts, ret |-> <<>>]

\* the chat handler between two messages
IdleHandler ==
    [pc |-> "idle", query |-> "", has_session |-> <<>>, followup |-> <<>>,
     conv_context |-> <<>>, sent |-> <<>>, response |-> <<>>]

Init ==
    /\ InitStore
    /\ classifier = IdleClassifier
    /\ extractor = IdleExtractor
    /\ handler = IdleHandler

(***************************************************************************)
(* The clock.                                                              *)
(***************************************************************************)
\* the clock advances by exactly the timeout or by one second more, so that a
\* session is seen idle for exactly SESSION_TIMEOUT_SECONDS and for one second
\* more; now \div SESSION_TIMEOUT_SECONDS is the number of advances so far
TickSteps == {SESSION_TIMEOUT_SECONDS, SESSION_TIMEOUT_SECONDS + 1}
TicksTaken == now \div SESSION_TIMEOUT_SECONDS

Tick(d) ==
    /\ now' = now + d
    /\ UNCHANGED <<hashSeed, sessions, lock, pc, frame>>

(***************************************************************************)
(* with self._lock: a thread takes the lock when no thread holds it.       *)
(***************************************************************************)
\* a lock that excludes nobody
LockAlwaysFree == TRUE

LockFree == lock = NoThread

(***************************************************************************)
(* Calls of the public API.  has_session, get_context and reset start with *)
(* "with self._lock": the call is the acquisition of the lock.  update and *)
(* active_session_count run a statement first and then wait for the lock.  *)
(***************************************************************************)
EnterLocked(t, f) ==
    /\ pc[t] = "idle"
    /\ LockFree
    /\ lock' = t
    /\ pc' = [pc EXCEPT ![t] = "body"]
    /\ frame' = [frame EXCEPT ![t] = f]
    /\ UNCHANGED <<hashSeed, now, sessions>>

Enter(t, f) ==
    /\ pc[t] = "idle"
    /\ pc' = [pc EXCEPT ![t] = "lock"]
    /\ frame' = [frame EXCEPT ![t] = f]
    /\ UNCHANGED <<hashSeed, now, sessions, lock>>

CallHasSession(t, u) ==
    EnterLocked(t, [IdleFrame EXCEPT !.op = "has_session", !.user_id = u])

CallGetContext(t, u) ==
    EnterLocked(t, [IdleFrame EXCEPT !.op = "get_context", !.user_id = u])

\* key_facts = _extract_key_facts(response) runs before the lock is taken
CallUpdate(t, u, q, r) ==
    Enter(t, [IdleFrame EXCEPT !.op = "update", !.user_id = u, !.query = q,
                               !.response = r, !.key_facts = KeyFacts[hashSeed][r]])

CallReset(t, u) ==
    EnterLocked(t, [IdleFrame EXCEPT !.op = "reset", !.user_id = u])

\* now = time.time() runs before the lock is taken
CallActiveSessionCount(t) ==
    Enter(t, [IdleFrame EXCEPT !.op = "active_session_count", !.now = now])

\* an acquisition that does not wait
AcquireHeld(t) ==
    /\ pc[t] = "lock"
    /\ lock' = t
    /\ pc' = [pc EXCEPT ![t] = "body"]
    /\ UNCHANGED <<hashSeed, now, sessions, frame>>

Acquire(t) ==
    /\ pc[t] = "lock"
    /\ LockFree
    /\ lock' = t
    /\ pc' = [pc EXCEPT ![t] = "body"]
    /\ UNCHANGED <<hashSeed, now, sessions, frame>>

\* a return that keeps the lock
ReturnHolding(t) ==
    /\ pc[t] = "return"
    /\ pc' = [pc EXCEPT ![t] = "idle"]
    /\ frame' = [frame EXCEPT ![t] = IdleFrame]
    /\ UNCHANGED <<hashSeed, now, sessions, lock>>

\* the return statement: the value is in frame[t].ret; leaving the with block
\* releases the lock
Return(t) ==
    /\ pc[t] = "return"
    /\ lock' = IF lock = t THEN NoThread ELSE lock
    /\ pc' = [pc EXCEPT ![t] = "idle"]
    /\ frame' = [frame EXCEPT ![t] = IdleFrame]
    /\ UNCHANGED <<hashSeed, now, sessions>>

InBody(t, op) == pc[t] = "body" /\ frame[t].op = op

\* the body ends at a return statement: branch names it, clock is the value of
\* time.time() the body read (0 when it read none), ret the value returned
Returning(t, branch, clock, ret) ==
    /\ pc' = [pc EXCEPT ![t] = "return"]
    /\ frame' = [frame EXCEPT ![t].branch = branch, ![t].now = clock, ![t].ret = ret]

(***************************************************************************)
(* The bodies, under the lock.                                             *)
(***************************************************************************)
\* an existence check that stores a fresh session for a user it does not know
has_session_creating(t) ==
    LET u == frame[t].user_id
    IN  /\ InBody(t, "has_session")
        /\ IF u \notin DOMAIN sessions
           THEN /\ Returning(t, "absent", 0, RetBool(FALSE))
                /\ sessions' = With(sessions, u, ConversationSession(now))
           ELSE IF Expired(sessions[u], now)
           THEN /\ sessions' = Without(sessions, u)
                /\ Returning(t, "expired", now, RetBool(FALSE))
           ELSE /\ Returning(t, "live", now, RetBool(TRUE))
                /\ UNCHANGED sessions
        /\ UNCHANGED <<hashSeed, now, lock>>

\* an existence check that counts as activity
has_session_refreshing(t) ==
    LET u == frame[t].user_id
    IN  /\ InBody(t, "has_session")
        /\ IF u \notin DOMAIN sessions
           THEN /\ Returning(t, "absent", 0, RetBool(FALSE))
                /\ UNCHANGED sessions
           ELSE IF Expired(sessions[u], now)
           THEN /\ sessions' = Without(sessions, u)
                /\ Returning(t, "expired", now, RetBool(FALSE))
           ELSE /\ Returning(t, "live", now, RetBool(TRUE))
                /\ sessions' = With(sessions, u, [sessions[u] EXCEPT !.last_activity = now])
        /\ UNCHANGED <<hashSeed, now, lock>>

has_session(t) ==
    LET u == frame[t].user_id
    IN  /\ InBody(t, "has_session")
        /\ IF u \notin DOMAIN sessions
           THEN /\ Returning(t, "absent", 0, RetBool(FALSE))
                /\ UNCHANGED sessions
           ELSE IF Expired(sessions[u], now)
           THEN /\ sessions' = Without(sessions, u)
                /\ Returning(t, "expired", now, RetBool(FALSE))
           ELSE /\ Returning(t, "live", now, RetBool(TRUE))
                /\ UNCHANGED sessions
        /\ UNCHANGED <<hashSeed, now, lock>>

get_context(t) ==
    LET u == frame[t].user_id
    IN  /\ InBody(t, "get_context")
        /\ IF u \notin DOMAIN sessions
           THEN /\ Returning(t, "absent", 0, RetNone)
                /\ UNCHANGED sessions
           ELSE IF Expired(sessions[u], now)
           THEN /\ sessions' = Without(sessions, u)
                /\ Returning(t, "expired", now, RetNone)
           ELSE /\ Returning(t, "live", now,
                             IF sessions[u].summary # ""
                             THEN RetStr(sessions[u].summary) ELSE RetNone)
                /\ UNCHANGED sessions
        /\ UNCHANGED <<hashSeed, now, lock>>

\* update, lines 219-236: get or create the session, build and compact the summary
update_read(t) ==
    LET u == frame[t].user_id
        created == u \notin DOMAIN sessions
        session == IF created THEN ConversationSession(now) ELSE sessions[u]
    IN  /\ InBody(t, "update")
        /\ sessions' = IF created THEN With(sessions, u, session) ELSE sessions
        /\ frame' = [frame EXCEPT
             ![t].branch = IF created THEN "created" ELSE "existing",
             ![t].new_summary =
                 CompactSummary(RenderSummary(session.summary, frame[t].query,
                                              frame[t].key_facts))]
        /\ pc' = [pc EXCEPT ![t] = "write"]
        /\ UNCHANGED <<hashSeed, now, lock>>

\* a turn_count taken from the segments of the summary
RecordedBySegments(session, f, t) ==
    [summary |-> f.new_summary,
     last_query |-> f.query,
     last_response_snippet |-> Take(f.response, SNIPPET_CAP),
     turn_count |-> Len(Split(f.new_summary, SEP)),
     last_activity |-> t]

\* a write that leaves the snippet of the turn before
RecordedTorn(session, f, t) ==
    [summary |-> f.new_summary,
     last_query |-> f.query,
     last_response_snippet |-> session.last_response_snippet,
     turn_count |-> session.turn_count + 1,
     last_activity |-> t]

\* the session after lines 238-242
Recorded(session, f, t) ==
    [summary |-> f.new_summary,
     last_query |-> f.query,
     last_response_snippet |-> Take(f.response, SNIPPET_CAP),
     turn_count |-> session.turn_count + 1,
     last_activity |-> t]

\* update, lines 238-242: the five assignments to the session object
update_write(t) ==
    LET u == frame[t].user_id
    IN  /\ pc[t] = "write"
        /\ sessions' = IF u \in DOMAIN sessions
                       THEN With(sessions, u, Recorded(sessions[u], frame[t], now))
                       ELSE sessions
        /\ pc' = [pc EXCEPT ![t] = "return"]
        /\ frame' = [frame EXCEPT ![t].ret = RetNone]
        /\ UNCHANGED <<hashSeed, now, lock>>

\* a reset that spares an expired session
reset_live(t) ==
    LET u == frame[t].user_id
        found == u \in DOMAIN sessions
    IN  /\ InBody(t, "reset")
        /\ sessions' = IF found /\ Expired(sessions[u], now) THEN sessions
                       ELSE Without(sessions, u)
        /\ Returning(t, IF found THEN "removed" ELSE "absent", 0, RetNone)
        /\ UNCHANGED <<hashSeed, now, lock>>

\* self._sessions.pop(user_id, None): branch tells whether pop found the key
\* a reset that clears the counter and keeps the summary
reset_counter(t) ==
    LET u == frame[t].user_id
        found == u \in DOMAIN sessions
    IN  /\ InBody(t, "reset")
        /\ sessions' = IF found
                       THEN With(sessions, u, [sessions[u] EXCEPT !.turn_count = 0])
                       ELSE sessions
        /\ Returning(t, IF found THEN "removed" ELSE "absent", 0, RetNone)
        /\ UNCHANGED <<hashSeed, now, lock>>

reset(t) ==
    /\ InBody(t, "reset")
    /\ sessions' = Without(sessions, frame[t].user_id)
    /\ Returning(t, IF frame[t].user_id \in DOMAIN sessions THEN "removed" ELSE "absent",
                 0, RetNone)
    /\ UNCHANGED <<hashSeed, now, lock>>

active_session_count(t) ==
    /\ InBody(t, "active_session_count")
    /\ Returning(t, "", frame[t].now,
         RetInt(Cardinality({u \in DOMAIN sessions :
                   frame[t].now - sessions[u].last_activity <= SESSION_TIMEOUT_SECONDS})))
    /\ UNCHANGED <<hashSeed, now, sessions, lock>>

(***************************************************************************)
(* The cleanup timer.  threading.Timer.run waits for the interval, calls   *)
(* the function unless cancel() came first, and ends.  The elapsing of     *)
(* CLEANUP_INTERVAL_SECONDS is the step timer_fire; now is only the value  *)
(* that time.time() returns.                                               *)
(***************************************************************************)
SweepThread == "sweep"

\* a periodic timer: it calls self._cleanup and keeps waiting for the next
\* interval
timer_fire_periodic ==
    /\ cleanup_timer = "pending"
    /\ sweep.pc = "idle"
    /\ sweep' = [sweep EXCEPT !.pc = "clock"]
    /\ UNCHANGED <<now, sessions, lock, cleanup_timer, shutdowns, armed, callerVars>>

\* the pending timer's wait ends and it calls self._cleanup
timer_fire ==
    /\ cleanup_timer = "pending"
    /\ sweep.pc = "idle"
    /\ cleanup_timer' = "fired"
    /\ armed' = armed - 1
    /\ sweep' = [sweep EXCEPT !.pc = "clock"]
    /\ UNCHANGED <<now, sessions, lock, shutdowns, callerVars>>

\* _cleanup, lines 268-269: now = time.time(); removed = 0
cleanup_clock ==
    /\ sweep.pc = "clock"
    /\ sweep' = [sweep EXCEPT !.pc = "lock", !.now = now, !.removed = 0]
    /\ UNCHANGED <<now, sessions, lock, cleanup_timer, shutdowns, armed, callerVars>>

\* _cleanup, line 270: with self._lock
cleanup_acquire ==
    /\ sweep.pc = "lock"
    /\ LockFree
    /\ lock' = SweepThread
    /\ sweep' = [sweep EXCEPT !.pc = "body"]
    /\ UNCHANGED <<now, sessions, cleanup_timer, shutdowns, armed, callerVars>>

\* a scan that takes every session that is not brand new
ExpiredUidsEager(map, t) == {uid \in DOMAIN map : t - map[uid].last_activity > 0}

\* the uids of line 271-274: the sessions expired at the clock reading of line 268
ExpiredUids(map, t) == {uid \in DOMAIN map : Expired(map[uid], t)}

\* for uid in expired: del self._sessions[uid]
WithoutAll(map, uids) == [v \in DOMAIN map \ uids |-> map[v]]

\* _cleanup, lines 271-277 and the end of the with block
cleanup_body ==
    LET expired == ExpiredUids(sessions, sweep.now)
    IN  /\ sweep.pc = "body"
        /\ sessions' = WithoutAll(sessions, expired)
        /\ lock' = IF lock = SweepThread THEN NoThread ELSE lock
        /\ sweep' = [sweep EXCEPT !.pc = "arm", !.removed = Cardinality(expired)]
        /\ UNCHANGED <<now, cleanup_timer, shutdowns, armed, callerVars>>

\* an exception raised inside the with block of _cleanup: no statement of
\* _cleanup catches it, the with block releases the lock, Timer.run ends and
\* the thread with it; line 283 is not reached
cleanup_raise ==
    /\ sweep.pc = "body"
    /\ lock' = IF lock = SweepThread THEN NoThread ELSE lock
    /\ sweep' = [sweep EXCEPT !.pc = "dead"]
    /\ UNCHANGED <<now, sessions, cleanup_timer, shutdowns, armed, callerVars>>

\* a run that ends without starting a timer
cleanup_end ==
    /\ sweep.pc = "arm"
    /\ sweep' = [sweep EXCEPT !.pc = "idle"]
    /\ UNCHANGED <<now, sessions, lock, cleanup_timer, shutdowns, armed, callerVars>>

\* _cleanup, line 283, and _start_cleanup_loop: a new Timer replaces the
\* reference and is started; the callback returns.  A cancel() that comes
\* between the assignment of line 262 and start() of line 264 leaves a timer
\* that ends without calling its function, which is the state that
\* cleanup_arm followed by shutdown leaves
cleanup_arm ==
    /\ sweep.pc = "arm"
    /\ cleanup_timer' = "pending"
    /\ armed' = armed + 1
    /\ sweep' = [sweep EXCEPT !.pc = "idle"]
    /\ UNCHANGED <<now, sessions, lock, shutdowns, callerVars>>

\* Timer.cancel() sets the finished event: a timer that still waits will not
\* call its function, a timer that has called it is not affected
Cancelled(timer) == IF timer = "pending" THEN "cancelled" ELSE timer

\* shutdown, lines 285-288; it takes no lock
shutdown(t) ==
    /\ pc[t] = "idle"
    /\ cleanup_timer' = Cancelled(cleanup_timer)
    /\ armed' = IF cleanup_timer = "pending" THEN armed - 1 ELSE armed
    /\ shutdowns' = shutdowns + 1
    /\ UNCHANGED <<now, sessions, lock, sweep, callerVars>>

\* the callers T act for the users U with the queries Q and the responses R,
\* record at most cap turns in the stored sessions, and the clock advances at
\* most ticks times
NextOf(T, U, Q, R, cap, ticks) ==
  /\ UNCHANGED <<timerVars, pureVars, handler>>
  /\
    \/ \E d \in TickSteps : TicksTaken < ticks /\ Tick(d)
    \/ \E t \in T, u \in U : CallHasSession(t, u)
    \/ \E t \in T, u \in U : CallGetContext(t, u)
    \/ \E t \in T, u \in U, q \in Q, r \in R : TotalTurns < cap /\ CallUpdate(t, u, q, r)
    \/ \E t \in T, u \in U : CallReset(t, u)
    \/ \E t \in T : CallActiveSessionCount(t)
    \/ \E t \in T : Acquire(t)
    \/ \E t \in T : has_session(t)
    \/ \E t \in T : get_context(t)
    \/ \E t \in T : update_read(t)
    \/ \E t \in T : update_write(t)
    \/ \E t \in T : reset(t)
    \/ \E t \in T : active_session_count(t)
    \/ \E t \in T : Return(t)

\* concurrent callers, two users
Next ==
    NextOf(Threads, Users, {ShortQuery}, {EmptyResponse, FactsResponse},
           MaxRacingTurns, MaxRacingTicks)

Spec == Init /\ [][Next]_vars

\* one caller, one user, long enough conversations for compaction
NextSeq == NextOf({"t1"}, {"u1"}, Queries, {EmptyResponse, LongResponse}, MaxTurns, MaxTicks)

SpecSeq == Init /\ [][NextSeq]_vars

\* concurrent callers, one user, short and long queries
NextRender ==
    NextOf(Threads, {"u1"}, Queries, {EmptyResponse}, MaxRacingTurns, MaxRacingTicks)

SpecRender == Init /\ [][NextRender]_vars

\* concurrent callers, one user, calls that differ in query and in response
NextRace ==
    NextOf(Threads, {"u1"}, Queries, {EmptyResponse, FactsResponse},
           MaxRacingTurns, MaxRacingTicks)

SpecRace == Init /\ [][NextRace]_vars

\* the steps of the timer thread, without a failing run
SweepSteps ==
    \/ timer_fire
    \/ cleanup_clock
    \/ cleanup_acquire
    \/ cleanup_body
    \/ cleanup_arm

\* one caller, two users and the cleanup timer; the caller may shut the store down
NextCallers ==
    NextOf({"t1"}, Users, {ShortQuery}, {EmptyResponse}, MaxSweepTurns, MaxSweepTicks)

NextShutdown == \E t \in {"t1"} : shutdowns < MaxShutdowns /\ shutdown(t)

NextSweep ==
    \/ NextCallers
    \/ SweepSteps
    \/ cleanup_raise
    \/ NextShutdown

SpecSweep == Init /\ [][NextSweep]_vars

\* one caller, one user and the cleanup timer; the caller may call shutdown()
\* more than once
NextTimer ==
    \/ NextOf({"t1"}, {"u1"}, {ShortQuery}, {EmptyResponse}, MaxSweepTurns, MaxSweepTicks)
    \/ SweepSteps
    \/ cleanup_raise
    \/ \E t \in {"t1"} : shutdowns < MaxTimerShutdowns /\ shutdown(t)

SpecTimer == Init /\ [][NextTimer]_vars

\* the message of a call: its parts one after the other
Message(parts) ==
    parts.lead \o parts.place \o parts.type \o parts.price \o parts.signal \o parts.pad

\* is_followup(message, has_session) is called and returns
classify ==
    /\ classifier.ret = <<>>
    /\ classifier' = [classifier EXCEPT
         !.ret = RetBool(is_followup(Message(classifier.parts), classifier.has_session))]
    /\ UNCHANGED <<hashSeed, now, sessions, lock, pc, frame, timerVars, extractor, handler>>

\* the calls of is_followup: every message of Messages, with and without a session
InitClassifier ==
    /\ InitStore
    /\ classifier \in [parts : Messages, has_session : BOOLEAN, ret : {<<>>}]
    /\ extractor = IdleExtractor
    /\ handler = IdleHandler

SpecClassifier == InitClassifier /\ [][classify]_vars

\* the response of a call: its parts one after the other
Response(parts) ==
    parts.oversupply \o parts.yield \o parts.chiller \o parts.buy \o parts.recommendation
      \o parts.score \o parts.price \o parts.location \o parts.rest

\* _extract_key_facts(response) is called and returns
extract ==
    /\ extractor.ret = <<>>
    /\ extractor' = [extractor EXCEPT
         !.ret = RetStr(extract_key_facts(Response(extractor.parts), hashSeed))]
    /\ UNCHANGED <<hashSeed, now, sessions, lock, pc, frame, timerVars, classifier, handler>>

\* the calls of _extract_key_facts: every response of ResponseParts, in a
\* process of every hash seed
InitExtractor ==
    /\ InitStore
    /\ classifier = IdleClassifier
    /\ extractor \in [parts : ResponseParts, ret : {<<>>}]
    /\ handler = IdleHandler

SpecExtractor == InitExtractor /\ [][extract]_vars

\* the steps of a caller that is inside a method
CallerSteps ==
    \E t \in Threads :
      \/ Acquire(t)
      \/ has_session(t)
      \/ get_context(t)
      \/ update_read(t)
      \/ update_write(t)
      \/ reset(t)
      \/ active_session_count(t)
      \/ Return(t)

\* no run of _cleanup fails
NextLive ==
    \/ NextCallers
    \/ SweepSteps
    \/ NextShutdown

\* threads run: a caller inside a method goes on to its return, the timer
\* thread goes on from statement to statement, a pending timer's interval
\* elapses, and a thread blocked on the lock gets it when it is released
\* again and again
Fairness ==
    /\ WF_vars(CallerSteps /\ UNCHANGED <<timerVars, pureVars, handler>>)
    /\ WF_vars(timer_fire)
    /\ WF_vars(cleanup_clock)
    /\ SF_vars(cleanup_acquire)
    /\ WF_vars(cleanup_body)
    /\ WF_vars(cleanup_arm)

SpecLive == Init /\ [][NextLive]_vars /\ Fairness

\* two callers, the timer thread (its runs may fail) and shutdown
NextFair ==
    \/ NextOf(Threads, {"u1"}, {ShortQuery}, {EmptyResponse}, MaxFairTurns, MaxRacingTicks)
    \/ SweepSteps
    \/ cleanup_raise
    \/ NextShutdown

\* the statements of thread t after it has got the lock
BodySteps(t) ==
    \/ has_session(t)
    \/ get_context(t)
    \/ update_read(t)
    \/ update_write(t)
    \/ reset(t)
    \/ active_session_count(t)
    \/ Return(t)

\* every thread runs: a thread that holds the lock goes on to its return, a
\* thread that waits for the lock gets it when it is free again and again,
\* and the timer thread goes on from statement to statement
FairnessOfThreads ==
    /\ \A t \in Threads :
         /\ WF_vars(BodySteps(t) /\ UNCHANGED <<timerVars, pureVars, handler>>)
         /\ SF_vars(Acquire(t) /\ UNCHANGED <<timerVars, pureVars, handler>>)
    /\ WF_vars(cleanup_clock)
    /\ SF_vars(cleanup_acquire)
    /\ WF_vars(cleanup_body \/ cleanup_raise)
    /\ WF_vars(cleanup_arm)

SpecFair == Init /\ [][NextFair]_vars /\ FairnessOfThreads

(***************************************************************************)
(* The chat handlers: process_query of shared/bot_core.py and              *)
(* handle_message of telegram-bot/bot.py run the same statements around    *)
(* the store.  One handler runs on the thread HandlerThread for the user   *)
(* HandlerUser; each of its calls into the store is a call of the model    *)
(* above, so another caller may run between any two of its statements.     *)
(***************************************************************************)
HandlerThread == "t1"
HandlerUser == "u1"

\* is_followup(query, has_session) for the queries of the handler
IsFollowup == [q \in Queries |-> [b \in BOOLEAN |-> is_followup(q, b)]]

\* the handler's call of op is at its return statement
AtReturn(op) == pc[HandlerThread] = "return" /\ frame[HandlerThread].op = op

\* query = update.message.text; self.conversation_store.has_session(uid) is called
handler_start(q) ==
    /\ handler.pc = "idle"
    /\ CallHasSession(HandlerThread, HandlerUser)
    /\ handler' = [IdleHandler EXCEPT !.pc = "has_session", !.query = q]
    /\ UNCHANGED <<timerVars, pureVars>>

\* followup = is_followup(query, <the value has_session returned>)
handler_followup ==
    /\ handler.pc = "has_session"
    /\ AtReturn("has_session")
    /\ Return(HandlerThread)
    /\ handler' = [handler EXCEPT
         !.pc = "followup",
         !.has_session = frame[HandlerThread].ret,
         !.followup = RetBool(IsFollowup[handler.query][frame[HandlerThread].ret[2]])]
    /\ UNCHANGED <<timerVars, pureVars>>

\* a handler that asks for the context of every message
handler_get_context_always ==
    /\ handler.pc = "followup"
    /\ CallGetContext(HandlerThread, HandlerUser)
    /\ handler' = [handler EXCEPT !.pc = "get_context"]
    /\ UNCHANGED <<timerVars, pureVars>>

\* conv_context = self.conversation_store.get_context(uid) if followup else None
handler_get_context ==
    /\ handler.pc = "followup"
    /\ IF handler.followup = RetBool(TRUE)
       THEN /\ CallGetContext(HandlerThread, HandlerUser)
            /\ handler' = [handler EXCEPT !.pc = "get_context"]
       ELSE /\ handler' = [handler EXCEPT !.pc = "llm", !.conv_context = RetNone]
            /\ UNCHANGED <<hashSeed, now, sessions, lock, pc, frame>>
    /\ UNCHANGED <<timerVars, pureVars>>

\* get_context has returned: None or the summary
handler_context ==
    /\ handler.pc = "get_context"
    /\ AtReturn("get_context")
    /\ Return(HandlerThread)
    /\ handler' = [handler EXCEPT !.pc = "llm", !.conv_context = frame[HandlerThread].ret]
    /\ UNCHANGED <<timerVars, pureVars>>

\* handle_query, main.py lines 1773-1776: "if conversation_context:" puts the
\* context before the query; sent is the context the model call receives
Sent(conv_context) ==
    IF conv_context[1] = "str" /\ conv_context[2] # "" THEN conv_context ELSE RetNone

\* result = await handle_query(query, user_id=uid, conversation_context=conv_context)
\* returns the response r
handler_llm(r) ==
    /\ handler.pc = "llm"
    /\ handler' = [handler EXCEPT !.pc = "update", !.sent = Sent(handler.conv_context),
                                  !.response = RetStr(r)]
    /\ UNCHANGED <<hashSeed, now, sessions, lock, pc, frame, timerVars, pureVars>>

\* handle_query raises: the handler ends without a call of update
handler_llm_raise ==
    /\ handler.pc = "llm"
    /\ handler' = IdleHandler
    /\ UNCHANGED <<hashSeed, now, sessions, lock, pc, frame, timerVars, pureVars>>

\* self.conversation_store.update(uid, query, response_text) is called
handler_update ==
    /\ handler.pc = "update"
    /\ TotalTurns < MaxAdapterTurns
    /\ CallUpdate(HandlerThread, HandlerUser, handler.query, handler.response[2])
    /\ handler' = [handler EXCEPT !.pc = "updating"]
    /\ UNCHANGED <<timerVars, pureVars>>

\* update has returned
handler_updated ==
    /\ handler.pc = "updating"
    /\ AtReturn("update")
    /\ Return(HandlerThread)
    /\ handler' = [handler EXCEPT !.pc = "updated"]
    /\ UNCHANGED <<timerVars, pureVars>>

\* update_active_conversations(self.conversation_store.active_session_count())
handler_count ==
    /\ handler.pc = "updated"
    /\ CallActiveSessionCount(HandlerThread)
    /\ handler' = [handler EXCEPT !.pc = "count"]
    /\ UNCHANGED <<timerVars, pureVars>>

\* active_session_count has returned; the rest of the handler leaves the store alone
handler_done ==
    /\ handler.pc = "count"
    /\ AtReturn("active_session_count")
    /\ Return(HandlerThread)
    /\ handler' = IdleHandler
    /\ UNCHANGED <<timerVars, pureVars>>

\* the statements of the store methods the handler has called
HandlerStoreSteps ==
    \/ Acquire(HandlerThread)
    \/ has_session(HandlerThread)
    \/ get_context(HandlerThread)
    \/ update_read(HandlerThread)
    \/ update_write(HandlerThread)
    \/ active_session_count(HandlerThread)

\* the handler, and another caller of the store for the same user (a command
\* handler such as /new or /search, or a second chat), with the clock
NextAdapter ==
    \/ NextOf({"t2"}, {HandlerUser}, {ShortQuery}, {EmptyResponse},
              MaxAdapterTurns, MaxAdapterTicks)
    \/ HandlerStoreSteps /\ UNCHANGED <<timerVars, pureVars, handler>>
    \/ \E q \in Queries : handler_start(q)
    \/ handler_followup
    \/ handler_get_context
    \/ handler_context
    \/ \E r \in {FactsResponse} : handler_llm(r)
    \/ handler_llm_raise
    \/ handler_update
    \/ handler_updated
    \/ handler_count
    \/ handler_done

SpecAdapter == Init /\ [][NextAdapter]_vars

(***************************************************************************)
(* Properties.                                                             *)
(***************************************************************************)
\* a is a suffix of b
IsSuffix(a, b) == Len(a) <= Len(b) /\ From(b, Len(b) - Len(a) + 1) = a

StartsWith(s, lit) == MatchAt(s, 1, lit)

\* the thread t has run the body of op and is at its return statement
Returned(t, op) == pc[t] = "return" /\ frame[t].op = op

\* C1 (summary bound): in every reachable state every stored summary has at
\* most 500 characters, and so has every string get_context returns, whatever
\* the queries and responses recorded so far.
C1_SummaryBound ==
    /\ \A u \in DOMAIN sessions : Len(sessions[u].summary) <= 500
    /\ \A t \in Threads :
         (Returned(t, "get_context") /\ frame[t].ret[1] = "str")
            => Len(frame[t].ret[2]) <= 500

\* get_context has returned a summary of more than 400 characters whose first
\* turn was dropped by compaction
C1_Witness ==
    \E t \in Threads :
      /\ Returned(t, "get_context")
      /\ frame[t].ret[1] = "str"
      /\ Len(frame[t].ret[2]) > 400
      /\ ~StartsWith(frame[t].ret[2], "Prior: ")

\* the segment update renders for the turn (query, facts) after the summary old
TurnSegment(old, query, facts) ==
    (IF old = "" THEN "Prior: " ELSE "Then: ") \o Take(query, 80) \o " " \o ARROW \o " " \o facts

\* the summary before compaction
Uncompacted(old, query, facts) ==
    IF old = "" THEN TurnSegment(old, query, facts)
    ELSE old \o " | " \o TurnSegment(old, query, facts)

\* new is full with pipe-separated segments dropped from the oldest end only,
\* one at a time, until it fits 500 characters or one segment is left, and the
\* segment seg of the new turn is whole at its end
EvictedOldestFirst(full, seg, new) ==
    /\ IsSuffix(new, full)
    /\ IsSuffix(seg, new)
    /\ new # full =>
         /\ Len(full) > 500
         /\ MatchAt(full, Len(full) - Len(new) - 2, " | ")
         /\ \A i \in 1..(Len(full) - Len(new) - 3) :
              MatchAt(full, i, " | ") => Len(full) - (i + 2) > 500
    /\ Len(new) > 500 => ~Contains(new, " | ")

\* C2 (eviction order): the summary a record_turn stores is the rendered
\* summary with only oldest segments dropped, as few as needed to fit 500
\* characters, and the segment of the recorded turn whole at its end.
C2_EvictionOrder ==
    [][\A t \in Threads :
         update_write(t) =>
           LET u == frame[t].user_id
               old == sessions[u].summary
           IN  EvictedOldestFirst(Uncompacted(old, frame[t].query, frame[t].key_facts),
                                  TurnSegment(old, frame[t].query, frame[t].key_facts),
                                  sessions'[u].summary)]_vars

\* a third turn whose compaction dropped both older turns at once: the stored
\* summary holds two turns and the summary about to be stored only the new one
C2_Witness ==
    \E t \in Threads :
      /\ pc[t] = "write"
      /\ frame[t].user_id \in DOMAIN sessions
      /\ LET old == sessions[frame[t].user_id].summary
         IN  /\ StartsWith(old, "Prior: ")
             /\ Contains(old, " | Then: ")
             /\ frame[t].new_summary =
                  TurnSegment(old, frame[t].query, frame[t].key_facts)

\* the session of u is stored and t seconds after its last recorded turn is
\* within the 30 minutes
LiveAt(u, t) == u \in DOMAIN sessions /\ t - sessions[u].last_activity <= 30 * 60

\* the session of u is stored and more than 30 minutes idle
StaleAt(u, t) == u \in DOMAIN sessions /\ t - sessions[u].last_activity > 30 * 60

\* C3 (timeout boundary): has_session(u) returns true exactly when a session
\* is stored for u and now - last_activity <= 30 minutes at the call; idle for
\* exactly 30 minutes is present, idle for a second more is absent.
C3_TimeoutBoundary ==
    [][\A t \in Threads :
         has_session(t) =>
           frame'[t].ret = RetBool(LiveAt(frame[t].user_id, now))]_vars

\* has_session has answered true for a session idle for exactly 30 minutes
C3_Witness ==
    \E t \in Threads :
      /\ Returned(t, "has_session")
      /\ frame[t].ret = RetBool(TRUE)
      /\ frame[t].user_id \in DOMAIN sessions
      /\ frame[t].now - sessions[frame[t].user_id].last_activity = 30 * 60

\* C4 (lazy eviction): has_session and get_context called on an expired
\* session remove it and answer false / None; called for a user with no stored
\* session (as after that removal) they answer false / None and change nothing.
C4_LazyEviction ==
    [][\A t \in Threads :
         LET u == frame[t].user_id
         IN  /\ (has_session(t) /\ StaleAt(u, now))
                  => u \notin DOMAIN sessions' /\ frame'[t].ret = RetBool(FALSE)
             /\ (get_context(t) /\ StaleAt(u, now))
                  => u \notin DOMAIN sessions' /\ frame'[t].ret = RetNone
             /\ (has_session(t) /\ u \notin DOMAIN sessions)
                  => sessions' = sessions /\ frame'[t].ret = RetBool(FALSE)
             /\ (get_context(t) /\ u \notin DOMAIN sessions)
                  => sessions' = sessions /\ frame'[t].ret = RetNone]_vars

\* get_context has found the session expired: it answers None and the map
\* holds no entry for the user
C4_Witness ==
    \E t \in Threads :
      /\ Returned(t, "get_context")
      /\ frame[t].branch = "expired"
      /\ frame[t].ret = RetNone
      /\ frame[t].user_id \notin DOMAIN sessions

\* a stored session that lacks a summary or a recorded turn is the one its
\* creator is completing under the lock
Complete ==
    \A u \in DOMAIN sessions :
      (sessions[u].summary = "" \/ sessions[u].turn_count < 1)
         => \E t \in Threads : /\ lock = t
                               /\ pc[t] = "write"
                               /\ frame[t].branch = "created"
                               /\ frame[t].user_id = u

\* C5 (get_context agrees with has_session): no caller sees a stored session
\* with an empty summary or turn_count < 1; get_context(u) returns the stored
\* summary, a non-empty string, exactly when has_session(u) would return true
\* (a session is stored and within the timeout) and None otherwise; once
\* record_turn(u, q, r) has written, the session of u is live with a non-empty
\* summary, for an empty response too.
C5_ContextAgreesWithHasSession ==
    [][/\ Complete'
       /\ \A t \in Threads :
            LET u == frame[t].user_id
            IN  /\ get_context(t) =>
                     IF LiveAt(u, now)
                     THEN /\ sessions[u].summary # ""
                          /\ sessions[u].turn_count >= 1
                          /\ frame'[t].ret = RetStr(sessions[u].summary)
                     ELSE frame'[t].ret = RetNone
                /\ has_session(t) =>
                     /\ frame'[t].ret = RetBool(LiveAt(u, now))
                     /\ LiveAt(u, now) => sessions[u].summary # ""
                /\ update_write(t) =>
                     /\ u \in DOMAIN sessions'
                     /\ sessions'[u].summary # ""
                     /\ sessions'[u].turn_count >= 1
                     /\ now - sessions'[u].last_activity <= 30 * 60]_vars

\* get_context has returned the summary of a session whose only turn had an
\* empty response
C5_Witness ==
    \E t \in Threads :
      /\ Returned(t, "get_context")
      /\ frame[t].user_id \in DOMAIN sessions
      /\ LET session == sessions[frame[t].user_id]
         IN  /\ session.turn_count = 1
             /\ session.last_response_snippet = ""
             /\ session.last_query # ""
             /\ frame[t].ret = RetStr(session.summary)
             /\ session.summary = "Prior: " \o session.last_query \o " " \o ARROW \o " "

\* C6 (lazy creation): an entry is added to the map only by record_turn;
\* has_session, get_context, reset and active_session_count for a user with no
\* stored session add no entry and return false / None / None / a count;
\* record_turn for such a user stores the session and records turn 1 in it.
C6_LazyCreation ==
    [][/\ DOMAIN sessions' \subseteq DOMAIN sessions
          \/ \E t \in Threads :
               /\ update_read(t)
               /\ frame[t].user_id \notin DOMAIN sessions
               /\ DOMAIN sessions' = DOMAIN sessions \cup {frame[t].user_id}
       /\ \A t \in Threads :
            LET u == frame[t].user_id
                unknown == u \notin DOMAIN sessions
            IN  /\ (has_session(t) /\ unknown)
                     => sessions' = sessions /\ frame'[t].ret = RetBool(FALSE)
                /\ (get_context(t) /\ unknown)
                     => sessions' = sessions /\ frame'[t].ret = RetNone
                /\ (reset(t) /\ unknown)
                     => sessions' = sessions /\ frame'[t].ret = RetNone
                /\ active_session_count(t)
                     => sessions' = sessions /\ frame'[t].ret[1] = "int"
                /\ (update_read(t) /\ unknown)
                     => u \in DOMAIN sessions' /\ frame'[t].branch = "created"
                /\ (update_write(t) /\ frame[t].branch = "created")
                     => /\ sessions'[u].turn_count = 1
                        /\ sessions'[u].summary =
                             "Prior: " \o Take(frame[t].query, 80) \o " " \o ARROW \o " "
                                \o frame[t].key_facts
                        /\ frame'[t].ret = RetNone]_vars

\* get_context has found no session for a user whose first record_turn, by the
\* other caller, waits for the lock: it answers None and the map stays empty
C6_Witness ==
    \E t \in Threads, w \in Threads :
      /\ Returned(t, "get_context")
      /\ frame[t].branch = "absent"
      /\ frame[t].ret = RetNone
      /\ DOMAIN sessions = {}
      /\ pc[w] = "lock"
      /\ frame[w].op = "update"
      /\ frame[w].user_id = frame[t].user_id

\* C7 (effect of one turn): record_turn(u, q, r) raises the turn_count of u by
\* exactly 1 (from 0 to 1 for a session it created), sets last_query to q,
\* last_response_snippet to the first 300 characters of r and last_activity to
\* the current time; nothing else changes the turn_count of a stored session,
\* and a newly stored session starts at 0, so turn_count counts the turns
\* recorded since creation whatever compaction dropped from the summary.
C7_EffectOfOneTurn ==
    [][/\ \A t \in Threads :
            update_write(t) =>
              LET u == frame[t].user_id
              IN  /\ sessions'[u].turn_count = sessions[u].turn_count + 1
                  /\ frame[t].branch = "created" => sessions'[u].turn_count = 1
                  /\ sessions'[u].last_query = frame[t].query
                  /\ Len(sessions'[u].last_response_snippet) <= 300
                  /\ sessions'[u].last_response_snippet
                       = SubSeq(frame[t].response, 1,
                                Min(300, Len(frame[t].response)))
                  /\ sessions'[u].last_activity = now
       /\ \A u \in DOMAIN sessions' :
            IF u \in DOMAIN sessions
            THEN sessions'[u].turn_count # sessions[u].turn_count
                   => \E t \in Threads : update_write(t) /\ frame[t].user_id = u
            ELSE sessions'[u].turn_count = 0]_vars

\* the third turn of a session has been recorded: compaction has left only
\* that turn in the summary, the response was cut to 300 characters and the
\* query is stored in full
C7_Witness ==
    \E t \in Threads :
      /\ Returned(t, "update")
      /\ frame[t].user_id \in DOMAIN sessions
      /\ LET session == sessions[frame[t].user_id]
         IN  /\ session.turn_count = 3
             /\ StartsWith(session.summary, "Then: ")
             /\ ~Contains(From(session.summary, 2), "Then: ")
             /\ Len(session.last_response_snippet) = 300
             /\ Len(frame[t].response) > 300
             /\ Len(session.last_query) > 80
             /\ session.last_activity = now

\* the sessions of the users other than u are the same before and after a step
OthersUnchanged(u) ==
    \A v \in (DOMAIN sessions \cup DOMAIN sessions') \ {u} :
      /\ v \in DOMAIN sessions
      /\ v \in DOMAIN sessions'
      /\ sessions'[v] = sessions[v]

\* C8 (reset idempotence): reset(u) removes the session of u, live or expired,
\* and returns None; reset(u) with no session stored for u, as after a first
\* reset, changes nothing and returns None; from then on u has no stored
\* session, so has_session(u) is false and get_context(u) is None, until
\* a record_turn(u) stores one.
C8_ResetIdempotence ==
    [][/\ \A t \in Threads :
            LET u == frame[t].user_id
                absent == u \notin DOMAIN sessions
            IN  /\ reset(t) =>
                     /\ u \notin DOMAIN sessions'
                     /\ DOMAIN sessions' = DOMAIN sessions \ {u}
                     /\ frame'[t].ret = RetNone
                     /\ absent => sessions' = sessions
                /\ (absent /\ has_session(t)) => frame'[t].ret = RetBool(FALSE)
                /\ (absent /\ get_context(t)) => frame'[t].ret = RetNone
       /\ \A u \in Users :
            (u \notin DOMAIN sessions /\ u \in DOMAIN sessions')
               => \E t \in Threads : update_read(t) /\ frame[t].user_id = u]_vars

\* reset has found no session for its user, as after a first reset, while the
\* session of the other user is stored
C8_Witness ==
    \E t \in Threads :
      /\ Returned(t, "reset")
      /\ frame[t].branch = "absent"
      /\ frame[t].ret = RetNone
      /\ frame[t].user_id \notin DOMAIN sessions
      /\ DOMAIN sessions # {}

\* C9 (no lost update): each record_turn for a user writes, under the lock,
\* the summary obtained by appending its turn to the summary stored at that
\* moment (then compacting) and raises the stored turn_count by 1, so two
\* concurrent calls for one user are applied one after the other in the order
\* they took the lock and neither overwrites the other's segment.
C9_NoLostUpdate ==
    [][\A t \in Threads :
         /\ update_write(t) =>
              LET u == frame[t].user_id
              IN  /\ lock = t
                  /\ sessions'[u].summary =
                       CompactSummary(RenderSummary(sessions[u].summary,
                                                    frame[t].query, frame[t].key_facts))
                  /\ sessions'[u].turn_count = sessions[u].turn_count + 1
         /\ (pc[t] = "write" /\ ~update_write(t)) => sessions' = sessions]_vars

\* of two overlapping record_turn calls for one user, one has appended its
\* turn to the stored summary while the other waits for the lock
C9_Witness ==
    \E t \in Threads, w \in Threads :
      /\ Returned(t, "update")
      /\ frame[t].branch = "existing"
      /\ frame[t].user_id \in DOMAIN sessions
      /\ pc[w] = "lock"
      /\ frame[w].op = "update"
      /\ frame[w].user_id = frame[t].user_id
      /\ LET session == sessions[frame[t].user_id]
         IN  /\ session.turn_count = 2
             /\ StartsWith(session.summary, "Prior: ")
             /\ Contains(session.summary, " | Then: ")

\* C10 (non-interference): has_session, get_context, record_turn and reset for
\* a user leave the stored session of every other user as it was, present or
\* not and in all five fields, whatever the other callers are doing.
C10_NonInterference ==
    [][\A t \in Threads :
         (has_session(t) \/ get_context(t) \/ update_read(t) \/ update_write(t)
            \/ reset(t))
           => OthersUnchanged(frame[t].user_id)]_vars

\* has_session has removed the expired session of one user while the session
\* of the other user, as old, is still stored and a record_turn of the other
\* caller waits for the lock
C10_Witness ==
    \E t \in Threads, w \in Threads :
      /\ Returned(t, "has_session")
      /\ frame[t].branch = "expired"
      /\ frame[t].user_id \notin DOMAIN sessions
      /\ \E v \in DOMAIN sessions : now - sessions[v].last_activity > 30 * 60
      /\ pc[w] = "lock"
      /\ frame[w].op = "update"

\* C11 (shutdown stops the sweep): once a shutdown() call has returned, no
\* timer fires into a new sweep run and no sweep run arms a new timer, also
\* when shutdown() came while a sweep run was executing.
C11_ShutdownStopsSweep ==
    [][shutdowns > 0 => ~timer_fire /\ ~cleanup_arm]_vars

\* C12 (self-perpetuating sweep): unless shutdown() is called, the sweep runs
\* again and again without end, and every run that has finished its pass has
\* a new timer pending afterwards.
C12_SelfPerpetuating ==
    /\ []<>(shutdowns > 0 \/ sweep.pc = "body")
    /\ (sweep.pc = "arm") ~> (cleanup_timer = "pending")

\* a timer armed by a finished run has fired: the next run starts, and the
\* count of the sessions the previous run removed is still in its frame
C12_Witness ==
    /\ shutdowns = 0
    /\ sweep.pc = "clock"
    /\ cleanup_timer = "fired"
    /\ sweep.removed > 0

\* C13 (sweep selectivity): a sweep run removes every stored session whose
\* last_activity is more than 30 minutes before the run's clock reading, and
\* every session it removes is more than 30 minutes idle when it is deleted;
\* a session that a record_turn refreshed after the clock reading is kept,
\* and the sessions kept are not changed.
C13_SweepSelectivity ==
    [][cleanup_body =>
         /\ \A u \in DOMAIN sessions :
              /\ sweep.now - sessions[u].last_activity > 30 * 60
                   => u \notin DOMAIN sessions'
              /\ sessions[u].last_activity >= sweep.now => u \in DOMAIN sessions'
              /\ u \notin DOMAIN sessions'
                   => now - sessions[u].last_activity > 30 * 60
         /\ \A u \in DOMAIN sessions' :
              u \in DOMAIN sessions /\ sessions'[u] = sessions[u]]_vars

\* a sweep run has removed a session and kept one whose second turn was
\* recorded after the run's clock reading and before the run took the lock
C13_Witness ==
    /\ sweep.pc = "arm"
    /\ sweep.removed = 1
    /\ sweep.now > 30 * 60
    /\ \E u \in DOMAIN sessions :
         /\ sessions[u].turn_count = 2
         /\ sessions[u].last_activity > sweep.now

\* C14 (the sweep survives an exception): a sweep run that raises does not
\* end the timer loop: the exception does not end the timer thread with no
\* timer started for the next interval (unless shutdown() was called).
C14_SweepSurvivesException ==
    (sweep.pc = "dead" /\ shutdowns = 0) => cleanup_timer = "pending"

\* C15 (active_session_count): active_session_count() returns the number of
\* stored sessions with now - last_activity <= 30 minutes, which is the number
\* of users for which has_session would return true at that instant, and it
\* removes nothing from the map.
C15_ActiveSessionCount ==
    [][\A t \in Threads :
         active_session_count(t) =>
           /\ frame'[t].ret = RetInt(Cardinality({u \in Users : LiveAt(u, now)}))
           /\ sessions' = sessions]_vars

\* active_session_count has returned 2 for two sessions of which one had
\* expired before the other was created: they were never live together
C15_Witness ==
    \E t \in Threads :
      /\ Returned(t, "active_session_count")
      /\ frame[t].ret = RetInt(2)
      /\ Cardinality({u \in Users : LiveAt(u, now)}) = 1
      /\ \E u \in DOMAIN sessions, v \in DOMAIN sessions :
           /\ sessions[u].turn_count = 1
           /\ sessions[v].turn_count = 1
           /\ sessions[v].last_activity - sessions[u].last_activity > 30 * 60

\* C16 (only record_turn mutates a session): a stored session changes in a
\* field only by the write of a record_turn for its user; has_session,
\* get_context and active_session_count leave every live session in the map
\* and as it was, last_activity included; reset, lazy eviction and the sweep
\* remove sessions and change none.
C16_OnlyRecordTurnMutates ==
    [][/\ \A u \in DOMAIN sessions \cap DOMAIN sessions' :
            sessions'[u] # sessions[u]
               => \E t \in Threads : update_write(t) /\ frame[t].user_id = u
       /\ \A t \in Threads :
            (has_session(t) \/ get_context(t) \/ active_session_count(t))
               => \A u \in Users :
                    LiveAt(u, now) => u \in DOMAIN sessions' /\ sessions'[u] = sessions[u]
       /\ ((\E t \in Threads : reset(t)) \/ cleanup_body)
            => /\ DOMAIN sessions' \subseteq DOMAIN sessions
               /\ \A u \in DOMAIN sessions' : sessions'[u] = sessions[u]]_vars

\* has_session has found a session live exactly 30 minutes after its only
\* turn, after an earlier sweep run: the session still carries the time of
\* that turn
C16_Witness ==
    \E t \in Threads :
      /\ Returned(t, "has_session")
      /\ frame[t].branch = "live"
      /\ frame[t].user_id \in DOMAIN sessions
      /\ frame[t].now - sessions[frame[t].user_id].last_activity = 30 * 60
      /\ sessions[frame[t].user_id].turn_count = 1
      /\ sweep.pc = "idle"
      /\ cleanup_timer = "pending"
      /\ sweep.now > 0

\* the call of is_followup has returned
Classified == classifier.ret # <<>>

\* what the parts of a message hold, read off the parts themselves: a
\* gazetteer location ("marina", and "views" inside "reviews"), a property
\* type the classifier knows (not the plural "villas"), a price it knows
\* (not "2M": no unit word and no decimal point), a leading search verb
\* ("Finder" is none), a follow-up signal
PartsLocation(parts) == parts.place # ""
PartsType(parts) == parts.type = " 2BR"
PartsPrice(parts) == parts.price \in {" 1,250.5M", " 500K"}
PartsVerb(parts) == parts.lead \in {"Find ", "Look up "}
PartsSignal(parts) ==
    \/ parts.lead = "What about "
    \/ parts.lead = "  And " /\ Len(Message(parts)) > Len(parts.lead)
    \/ parts.signal \in {" cheaper", " with it"}

\* the length of a message without the white space at its ends
TrimmedLen(m) ==
    LET inked == {i \in 1..Len(m) : CharAt(m, i) \notin {" ", "\n", "\t", "\r"}}
    IN  IF inked = {} THEN 0
        ELSE (CHOOSE i \in inked : \A j \in inked : j <= i)
               - (CHOOSE i \in inked : \A j \in inked : j >= i) + 1

\* C17 (P1): without a session is_followup is false for every message, also
\* for a message full of follow-up markers.
C17_NoSessionNeverFollowup ==
    (Classified /\ ~classifier.has_session) => classifier.ret = RetBool(FALSE)

\* is_followup has returned false, without a session, for the short message
\* "What about with it": a leading marker, the pronoun "it" and no place
C17_Witness ==
    /\ Classified
    /\ ~classifier.has_session
    /\ classifier.ret = RetBool(FALSE)
    /\ classifier.parts = [NoParts EXCEPT !.lead = "What about ", !.signal = " with it"]

\* C18 (P2): with a session, is_followup is false for every message that
\* holds a gazetteer location and a property type or a price signal, also
\* when the message carries a follow-up signal or is shorter than 40
\* characters.
C18_CompleteSpecBeatsSignal ==
    LET parts == classifier.parts
        m == Message(parts)
    IN  (/\ Classified
         /\ classifier.has_session
         /\ \/ PartsLocation(parts) /\ (PartsType(parts) \/ PartsPrice(parts))
            \/ contains_location(m) /\ (has_property_type(m) \/ has_price(m)))
           => classifier.ret = RetBool(FALSE)

\* is_followup has returned false, with a session, for "What about Marina
\* Gate 500K cheaper": a leading marker, a comparative and fewer than 40
\* characters, but a location and a price
C18_Witness ==
    /\ Classified
    /\ classifier.has_session
    /\ classifier.ret = RetBool(FALSE)
    /\ classifier.parts = [NoParts EXCEPT !.lead = "What about ", !.place = "Marina Gate",
                                          !.price = " 500K", !.signal = " cheaper"]
    /\ Len(Message(classifier.parts)) < 40

\* the first matching rule: complete request, explicit search, signal, short
RuleChain(loc, type, price, verb, signal, short) ==
    CASE loc /\ (type \/ price) -> FALSE
      [] ~(loc /\ (type \/ price)) /\ verb /\ loc -> FALSE
      [] ~(loc /\ (type \/ price)) /\ ~(verb /\ loc) /\ signal -> TRUE
      [] ~(loc /\ (type \/ price)) /\ ~(verb /\ loc) /\ ~signal /\ short /\ ~loc -> TRUE
      [] OTHER -> FALSE

\* C19 (rule chain): with a session, is_followup returns what the first
\* matching rule says, in the order: location and (type or price): false;
\* leading search verb and location: false; follow-up signal: true; trimmed
\* length below 40 and no location: true; else false.  A message with a
\* location, a marker and no type or price is a follow-up, and so is a
\* message of white space only.
C19_RuleChain ==
    LET parts == classifier.parts
    IN  (Classified /\ classifier.has_session)
          => classifier.ret =
               RetBool(RuleChain(PartsLocation(parts), PartsType(parts), PartsPrice(parts),
                                 PartsVerb(parts), PartsSignal(parts),
                                 TrimmedLen(Message(parts)) < 40))

\* is_followup has returned true, with a session, for "  And Marina Gate":
\* a location, no type, no price, and a leading marker once the message is
\* trimmed
C19_Witness ==
    /\ Classified
    /\ classifier.has_session
    /\ classifier.ret = RetBool(TRUE)
    /\ classifier.parts = [NoParts EXCEPT !.lead = "  And ", !.place = "Marina Gate"]

\* C20 (summary rendering): the turn recorded on a session that update has
\* just created, for a new user or after the session was reset or evicted, is
\* rendered "Prior: {first 80 characters of the query} > {key facts}"; a turn
\* recorded on a stored session finds a non-empty summary and is rendered
\* "{existing summary} | Then: {first 80 characters of the query} > {key
\* facts}" before compaction; so the "Prior:" form is used for the first turn
\* of a session and for no other.
C20_SummaryRendering ==
    [][\A t \in Threads :
         /\ update_read(t) =>
              LET u == frame[t].user_id
                  turn == Take(frame[t].query, 80) \o " " \o ARROW \o " "
                            \o frame[t].key_facts
              IN  IF u \notin DOMAIN sessions
                  THEN /\ frame'[t].branch = "created"
                       /\ frame'[t].new_summary = CompactSummary("Prior: " \o turn)
                  ELSE /\ frame'[t].branch = "existing"
                       /\ sessions[u].turn_count >= 1
                       /\ sessions[u].summary # ""
                       /\ frame'[t].new_summary =
                            CompactSummary(sessions[u].summary \o " | Then: " \o turn)
         /\ update_write(t) =>
              LET u == frame[t].user_id
              IN  /\ sessions'[u].summary = frame[t].new_summary
                  /\ (sessions'[u].turn_count = 1) <=> (frame[t].branch = "created")]_vars

\* a session holds two turns: the first, a query of more than 80 characters,
\* was rendered "Prior:" with the query cut at 80, and the second has just
\* been appended after " | Then: "
C20_Witness ==
    \E t \in Threads :
      /\ Returned(t, "update")
      /\ frame[t].branch = "existing"
      /\ frame[t].user_id \in DOMAIN sessions
      /\ LET session == sessions[frame[t].user_id]
             facts == KeyFacts[hashSeed][EmptyResponse]
         IN  /\ session.turn_count = 2
             /\ Len(LongQuery) > 80
             /\ session.summary =
                  "Prior: " \o Take(LongQuery, 80) \o " " \o ARROW \o " " \o facts
                    \o " | Then: " \o ShortQuery \o " " \o ARROW \o " " \o facts

\* the call of _extract_key_facts has returned
Extracted == extractor.ret # <<>>

\* the fragment each part of a response gives: none for the empty part, the
\* first of the two matches it holds otherwise; a response naming two places
\* gives the one the iteration over the gazetteer meets first
ExpectedLocations(part) ==
    IF part = "" THEN {<<>>}
    ELSE IF part = "downtown. " THEN {<<"Downtown">>}
    ELSE {<<"Marina">>, <<"Jbr">>}

ExpectedPrice(part) ==
    IF part = "" THEN <<>>
    ELSE IF part = LongPrice THEN <<"AED " \o Repeat("7", 250)>>
    ELSE <<"AED 1.5 M">>

ExpectedRecommendation(part) ==
    IF part = "no go, GO later. " THEN <<"NO-GO">>
    ELSE IF part = "GO. " THEN <<"GO">>
    ELSE <<>>

ExpectedOther(part, fragment) == IF part = "" THEN <<>> ELSE <<fragment>>

\* the fragments of the seven rules after the location rule, in rule order
ExpectedTail(parts) ==
    ExpectedPrice(parts.price)
      \o ExpectedOther(parts.score, "Score: 62/100")
      \o ExpectedRecommendation(parts.recommendation)
      \o ExpectedOther(parts.buy, "GOOD  BUY")
      \o ExpectedOther(parts.chiller, "Empower chiller")
      \o ExpectedOther(parts.yield, "6.5% Net yield")
      \o ExpectedOther(parts.oversupply, "oversupply risk")

\* no part of the response gives a fragment
NoRuleMatches(parts) == parts.location = "" /\ ExpectedTail(parts) = <<>>

\* C21 (digest size and fallback): for every response r the digest has at
\* most 250 characters, it is non-empty whenever r is non-empty, and when no
\* rule matches it is the first 150 characters of r with every newline
\* replaced by a space.
C21_DigestSizeAndFallback ==
    LET r == Response(extractor.parts)
    IN  Extracted =>
          /\ extractor.ret[1] = "str"
          /\ Len(extractor.ret[2]) <= 250
          /\ r # "" => extractor.ret[2] # ""
          /\ NoRuleMatches(extractor.parts) =>
                /\ Len(extractor.ret[2]) = Min(Len(r), 150)
                /\ \A i \in 1..Len(extractor.ret[2]) :
                      CharAt(extractor.ret[2], i) =
                        (IF CharAt(r, i) = "\n" THEN " " ELSE CharAt(r, i))

\* the digest of a response of more than 150 characters that no rule matches
\* has been returned: its 150 first characters, the newline now a space
C21_Witness ==
    /\ Extracted
    /\ extractor.parts = [NoResponseParts EXCEPT !.rest = LongRest]
    /\ Len(LongRest) > 150
    /\ extractor.ret = RetStr("ok " \o Repeat("z", 147))

\* C22 (extractor rule order): each of the eight rules contributes at most
\* one fragment, the fragments stand in the order location, price, score,
\* recommendation, buy grade, chiller, yield, oversupply whatever their order
\* in the response, joined by ", " and cut at 250 characters, and the
\* recommendation rule gives "NO-GO" and no "GO" for a response that holds
\* both.
C22_RuleOrder ==
    LET parts == extractor.parts
    IN  (Extracted /\ ~NoRuleMatches(parts)) =>
          \E location \in ExpectedLocations(parts.location) :
            extractor.ret = RetStr(Take(Join(location \o ExpectedTail(parts), ", "), 250))

\* the digest of a response that holds every part, an oversupply warning
\* first and two places last, "no go" and "GO" among them, has been returned
C22_Witness ==
    /\ Extracted
    /\ extractor.parts.oversupply # ""
    /\ extractor.parts.recommendation = "no go, GO later. "
    /\ extractor.parts.location = "Marina Gate, JBR Walk. "
    /\ \E place \in {"Marina", "Jbr"} :
         extractor.ret =
           RetStr(place \o ", AED 1.5 M, Score: 62/100, NO-GO, GOOD  BUY, "
                    \o "Empower chiller, 6.5% Net yield, oversupply risk")

\* C23 (determinism): the digest of a response is a function of its text
\* alone: whatever the process that evaluates it, and so whatever the order
\* in which that process iterates over the gazetteer, the result is the same
\* string, also for a response that names more than one gazetteer location.
C23_Determinism ==
    Extracted =>
      \A seed \in HashSeeds :
        extractor.ret = RetStr(extract_key_facts(Response(extractor.parts), seed))

\* C24 (adapter flow): the chat handler hands a context to the model call
\* only if is_followup returned true on the value has_session had just
\* returned to it; a fresh message (here the long query, a complete new
\* search) and a message of a user without a live session go out with no
\* context; and the handler's update runs only after the model call has
\* returned a response, with that response and the handler's query.
C24_AdapterFlow ==
    [][/\ (handler.sent # <<>>)' =>
            (/\ handler.followup = RetBool(handler.has_session[2] /\ handler.query = ShortQuery)
             /\ handler.sent[1] = "str" =>
                   /\ handler.followup = RetBool(TRUE)
                   /\ handler.has_session = RetBool(TRUE)
                   /\ handler.sent = handler.conv_context
             /\ (handler.followup = RetBool(FALSE) \/ handler.has_session = RetBool(FALSE))
                   => handler.sent = RetNone)'
       /\ (update_read(HandlerThread) \/ update_write(HandlerThread)) =>
            /\ handler.pc = "updating"
            /\ handler.response[1] = "str"
            /\ frame[HandlerThread].response = handler.response[2]
            /\ frame[HandlerThread].query = handler.query
       /\ handler_llm_raise => handler'.pc = "idle" /\ sessions' = sessions]_vars

\* the handler has sent a follow-up of a user with a live session to the
\* model with the stored summary as context, and has then recorded the turn
C24_Witness ==
    /\ handler.pc = "updating"
    /\ AtReturn("update")
    /\ handler.query = ShortQuery
    /\ handler.has_session = RetBool(TRUE)
    /\ handler.followup = RetBool(TRUE)
    /\ handler.sent[1] = "str"
    /\ StartsWith(handler.sent[2], "Prior: ")
    /\ HandlerUser \in DOMAIN sessions
    /\ sessions[HandlerUser].turn_count = 2

\* C25 (record_turn on an expired session): when the stored session of the
\* user is expired (idle for more than 30 minutes, not yet evicted) as
\* record_turn runs, the turn is recorded as the first turn of a new session:
\* the summary written is "Prior: ..." with the new turn alone, turn_count
\* is 1, and nothing recorded before the expiry stays in the stored summary.
C25_ExpiredTurnStartsAfresh ==
    [][\A t \in Threads :
         LET u == frame[t].user_id
         IN  /\ (update_read(t) /\ StaleAt(u, now)) =>
                  frame'[t].new_summary =
                    CompactSummary("Prior: " \o Take(frame[t].query, 80) \o " " \o ARROW
                                     \o " " \o frame[t].key_facts)
             /\ (update_write(t) /\ StaleAt(u, now)) =>
                  /\ sessions'[u].turn_count = 1
                  /\ ~Contains(sessions'[u].summary, " | Then: ")]_vars

\* C26 (abandoned sessions are removed): while shutdown() has not been
\* called, a stored session that has become expired does not stay expired in
\* the map for ever: unless a call for its user evicts or refreshes it, a
\* sweep run removes it; and once shutdown() has been called, a stored
\* session leaves the map only through a call for its user (has_session or
\* get_context finding it expired, or reset), never through a sweep run.
C26_AbandonedSessionsRemoved ==
    /\ \A u \in Users :
         (StaleAt(u, now) /\ shutdowns = 0) ~> (~StaleAt(u, now) \/ shutdowns > 0)
    /\ [][\A u \in DOMAIN sessions :
            (shutdowns > 0 /\ u \notin DOMAIN sessions') =>
              \E t \in Threads :
                /\ frame[t].user_id = u
                /\ has_session(t) \/ get_context(t) \/ reset(t)]_vars

\* the stored session of u holds the query, the snippet and, at the end of its
\* summary, the segment of one and the same call record_turn(u, q, r)
FromOneCall(session, seed) ==
    \E q \in Queries, r \in Responses :
      /\ session.last_query = q
      /\ session.last_response_snippet = Take(r, 300)
      /\ \E prefix \in {"Prior: ", "Then: "} :
           IsSuffix(prefix \o Take(q, 80) \o " " \o ARROW \o " " \o KeyFacts[seed][r],
                    session.summary)

\* C27 (last writer wins, no tearing): in every reachable state the
\* last_query, the last_response_snippet and the last segment of the summary
\* of a stored session with a recorded turn come from one and the same
\* record_turn call, and each write of a record_turn call is made by the
\* thread that holds the lock and leaves the three fields of its own call.
C27_NoTearing ==
    [][/\ \A u \in DOMAIN sessions' :
            sessions'[u].turn_count >= 1 => FromOneCall(sessions'[u], hashSeed)
       /\ \A t \in Threads :
            update_write(t) =>
              LET session == sessions'[frame[t].user_id]
              IN  /\ lock = t
                  /\ session.last_query = frame[t].query
                  /\ session.last_response_snippet = Take(frame[t].response, 300)
                  /\ IsSuffix(Take(frame[t].query, 80) \o " " \o ARROW \o " "
                                \o frame[t].key_facts,
                              session.summary)]_vars

\* of two overlapping record_turn calls for one user that differ in query and
\* in response, one has written the second turn of the session and the other
\* waits for the lock
C27_Witness ==
    \E t \in Threads, w \in Threads :
      /\ Returned(t, "update")
      /\ pc[w] = "lock"
      /\ frame[w].op = "update"
      /\ frame[w].user_id = frame[t].user_id
      /\ frame[w].query # frame[t].query
      /\ frame[w].response # frame[t].response
      /\ frame[t].user_id \in DOMAIN sessions
      /\ LET session == sessions[frame[t].user_id]
         IN  /\ session.turn_count = 2
             /\ session.last_query = frame[t].query
             /\ session.last_response_snippet = Take(frame[t].response, 300)
             /\ session.last_response_snippet # ""

\* the lock is held by exactly the threads that are inside a with block
LockDiscipline ==
    /\ \A t \in Threads : (lock = t) <=> (pc[t] \in {"body", "write", "return"})
    /\ (lock = SweepThread) <=> (sweep.pc = "body")

\* C28 (no deadlock): a thread takes the lock only when no thread holds it
\* and only when it does not hold it itself, holds it exactly while it is
\* inside the with block of one method and has released it when the method
\* or the sweep run is over, also when the run fails; shutdown() and the
\* arming of the timer neither need nor change the lock; and with two
\* callers and the sweep, every started call returns and every started
\* sweep run ends, under fair scheduling.
C28_NoDeadlock ==
    /\ []LockDiscipline
    /\ [][/\ lock' # lock => lock = NoThread \/ lock' = NoThread
          /\ (cleanup_arm \/ NextShutdown) => lock' = lock]_vars
    /\ [](sweep.pc = "arm" => ENABLED cleanup_arm)
    /\ \A t \in Threads : (pc[t] # "idle") ~> (pc[t] = "idle")
    /\ (sweep.pc \in {"clock", "lock", "body", "arm"}) ~> (sweep.pc \in {"idle", "dead"})

\* a caller waits for the lock while the sweep run holds it, and the other
\* caller is inside a call as well
C28_Witness ==
    /\ lock = SweepThread
    /\ sweep.pc = "body"
    /\ \E t \in Threads, w \in Threads :
         /\ t # w
         /\ pc[t] = "lock"
         /\ pc[w] = "lock"

\* the summary holds as many segments as turns were recorded in the session
\* since it was created (no summary of these runs reaches the compaction)
SegmentsSinceCreation(session) ==
    session.turn_count >= 1 =>
      /\ StartsWith(session.summary, "Prior: ")
      /\ Len(Split(session.summary, " | Then: ")) = session.turn_count

\* C29 (reset is a hard boundary): reset(u) leaves no session of u in the
\* map; the first record_turn that runs after it, also one whose query was
\* issued before the reset, creates the session anew and records turn 1, a
\* "Prior:" summary of its own turn alone; a stored summary holds the turns
\* recorded since the session was created and no other segment; and
\* get_context returns nothing but the stored summary.
C29_ResetBoundary ==
    [][/\ \A u \in DOMAIN sessions' : SegmentsSinceCreation(sessions'[u])
       /\ \A t \in Threads :
            LET u == frame[t].user_id
                turn == Take(frame[t].query, 80) \o " " \o ARROW \o " " \o frame[t].key_facts
            IN  /\ reset(t) => u \notin DOMAIN sessions'
                /\ (update_read(t) /\ u \notin DOMAIN sessions) =>
                     /\ frame'[t].branch = "created"
                     /\ frame'[t].new_summary = "Prior: " \o turn
                /\ (update_write(t) /\ frame[t].branch = "created") =>
                     /\ sessions'[u].turn_count = 1
                     /\ sessions'[u].summary = "Prior: " \o turn
                /\ get_context(t) =>
                     \/ frame'[t].ret = RetNone
                     \/ u \in DOMAIN sessions /\ frame'[t].ret = RetStr(sessions[u].summary)]_vars

\* the handler fetched the context of a session, the session was reset while
\* the model call ran (the clock has not moved, so it did not expire), and
\* the handler's update has then created the session anew: turn 1, a
\* "Prior:" summary of the handler's turn alone
C29_Witness ==
    /\ now = 0
    /\ handler.pc = "updating"
    /\ handler.sent[1] = "str"
    /\ AtReturn("update")
    /\ frame[HandlerThread].branch = "created"
    /\ HandlerUser \in DOMAIN sessions
    /\ sessions[HandlerUser].turn_count = 1
    /\ sessions[HandlerUser].summary =
         "Prior: " \o ShortQuery \o " " \o ARROW \o " " \o KeyFacts[hashSeed][FactsResponse]
    /\ sessions[HandlerUser].summary # handler.sent[2]


\* C30 (single timer): at every moment at most one cleanup timer is pending,
\* and a pending timer is the one self._cleanup_timer refers to, so that a
\* shutdown() call cancels it; a timer is started only by a sweep run that has
\* finished its pass, when no timer is pending, and it is one timer; this
\* holds for every interleaving of the sweep runs with the shutdown() calls.
C30_SingleTimer ==
    /\ [](armed \in {0, 1} /\ (armed = 1 <=> cleanup_timer = "pending"))
    /\ [][armed' > armed =>
            /\ cleanup_arm
            /\ sweep.pc = "arm"
            /\ armed = 0
            /\ armed' = 1]_vars
    /\ [][shutdowns' > shutdowns => armed' = 0 /\ cleanup_timer' # "pending"]_vars

\* two shutdown() calls came while a sweep run was executing; the run has
\* ended and started its successor, the one timer pending
C30_Witness ==
    /\ shutdowns = 2
    /\ sweep.pc = "idle"
    /\ cleanup_timer = "pending"
    /\ armed = 1
====
